---- MODULE Spec2Model ----
(***************************************************************************)
(* State-machine model of libbw64's Bw64Writer (include/bw64/writer.hpp),  *)
(* the CueChunk / LabelChunk / ListChunk classes (chunks_ext.hpp) and the  *)
(* parts of Bw64Reader / parser.hpp that read back what the writer wrote.  *)
(*                                                                         *)
(* Byte counts and file offsets are 64-bit in the program and cross 2^32.  *)
(* They are kept exact here as two-limb numbers <<hi, lo>> standing for    *)
(* hi * 2^16 + lo, because the model checker's integers are 32-bit.        *)
(*                                                                         *)
(* The file is modelled as the 12-byte outer header followed by a sequence *)
(* of extents.  An extent is what one append of a chunk left on disk: the  *)
(* 8-byte chunk header (id, 32-bit size field), the serialized body, and   *)
(* cap, the number of bytes between the end of the header and the start of *)
(* the next extent.  A chunk patched in place with a smaller chunk leaves  *)
(* cap unchanged; the bytes after the new body are the old ones.           *)
(*                                                                         *)
(* The output stream is assumed not to fail (no disk-full, no I/O error).  *)
(***************************************************************************)
EXTENDS Integers, Sequences, FiniteSets, TLC

-----------------------------------------------------------------------------
(* Two-limb unsigned numbers.                                              *)

Base == 65536

N(x) == <<x \div Base, x % Base>>

BAdd(a, b) == <<a[1] + b[1] + ((a[2] + b[2]) \div Base), (a[2] + b[2]) % Base>>

BLt(a, b) == a[1] < b[1] \/ (a[1] = b[1] /\ a[2] < b[2])

BLe(a, b) == a = b \/ BLt(a, b)

\* a - b for b <= a
BSub(a, b) ==
  IF a[2] >= b[2] THEN <<a[1] - b[1], a[2] - b[2]>>
  ELSE <<a[1] - b[1] - 1, a[2] + Base - b[2]>>

\* a * k for a small k
BMulSmall(a, k) == <<a[1] * k + ((a[2] * k) \div Base), (a[2] * k) % Base>>

\* a / d (integer division) for a small d
BDivSmall(a, d) ==
  LET r == a[1] % d
  IN  <<a[1] \div d, (r * Base + a[2]) \div d>>

BOdd(a) == a[2] % 2 = 1

\* std::numeric_limits<uint32_t>::max()
UINT32_MAX == <<65535, 65535>>

\* static_cast<uint32_t>(x)
U32(a) == <<a[1] % Base, a[2]>>

\* chunk payloads are padded to even length on disk
Pad(a) == IF BOdd(a) THEN BAdd(a, N(1)) ELSE a

IsBig(a) == /\ a \in Seq(Nat) /\ Len(a) = 2 /\ a[2] < Base

-----------------------------------------------------------------------------
(* Chunk objects.  A four-character code is a string; label text is a     *)
(* sequence of character codes (0 is the null byte).                       *)

\* the id read from four zero bytes
ZeroId == "0000"

\* CuePoint::CuePoint(): every field zero, empty label
EmptyCuePoint ==
  [id |-> 0, position |-> N(0), dataChunkId |-> ZeroId, chunkStart |-> 0,
   blockStart |-> 0, sampleOffset |-> N(0), label |-> <<>>]

\* a CuePoint as a caller fills it in (marker_tests.cpp)
MakeCuePoint(id, position, label) ==
  [id |-> id, position |-> position, dataChunkId |-> "data", chunkStart |-> 0,
   blockStart |-> 0, sampleOffset |-> position, label |-> label]

CueChunk(cuePoints) == [id |-> "cue ", cuePoints |-> cuePoints]

LabelChunk(cuePointId, label) ==
  [id |-> "labl", cuePointId |-> cuePointId, label |-> label]

ListChunk(listType, subChunks) ==
  [id |-> "LIST", listType |-> listType, subChunks |-> subChunks]

DataChunk(size) == [id |-> "data", size |-> size]

NoExtraData == [present |-> FALSE]

ExtraData(validBits, channelMask, subFormat) ==
  [present |-> TRUE, validBitsPerSample |-> validBits,
   dwChannelMask |-> channelMask, subFormat |-> subFormat]

FormatInfoChunk(channels, sampleRate, bitDepth, extraData, formatTag) ==
  [id |-> "fmt ", channelCount |-> channels, sampleRate |-> sampleRate,
   bitsPerSample |-> bitDepth, extraData |-> extraData, formatTag |-> formatTag]

ChnaChunk(numUids) == [id |-> "chna", numUids |-> numUids]

\* AxmlChunk and any other chunk whose payload is an opaque run of bytes
OpaqueChunk(id, bytes) == [id |-> id, bytes |-> bytes]

DataSize64Chunk(bw64Size, dataSize, table) ==
  [id |-> "ds64", bw64Size |-> bw64Size, dataSize |-> dataSize, table |-> table]

\* what writeChunkPlaceholder leaves on disk: size zero bytes
ZeroBody(id, size) == [id |-> id, zeros |-> size]

RECURSIVE ChunkSize(_), SubChunksSize(_)

\* the loop of ListChunk::size(): 8 header bytes, payload and pad byte per sub-chunk
SubChunksSize(subs) ==
  IF subs = <<>> THEN N(0)
  ELSE BAdd(BAdd(N(8), Pad(ChunkSize(Head(subs)))), SubChunksSize(Tail(subs)))

\* Chunk::size() of each chunk class
ChunkSize(c) ==
  CASE c.id = "cue "  -> N(4 + Len(c.cuePoints) * 24)
    [] c.id = "labl"  -> N(4 + Len(c.label) + 1)
    [] c.id = "LIST"  -> BAdd(N(4), SubChunksSize(c.subChunks))
    [] c.id = "data"  -> c.size
    [] c.id = "fmt "  -> IF c.extraData.present THEN N(40) ELSE N(16)
    [] c.id = "chna"  -> N(4 + c.numUids * 40)
    [] c.id = "ds64"  -> N(28 + Cardinality(DOMAIN c.table) * 12)
    [] OTHER          -> c.bytes

RECURSIVE bytesOf(_)
\* Chunk::write(stream): the payload a chunk puts on disk.  A cue point is
\* written without its label; a label is written with a terminating null byte;
\* a LIST payload is the list type and, per sub-chunk, id, 32-bit size, payload
\* and pad byte.  The other chunk classes are kept field by field.
bytesOf(c) ==
  CASE c.id = "cue " ->
         [id |-> "cue ", numCuePoints |-> Len(c.cuePoints),
          points |-> [i \in 1..Len(c.cuePoints) |->
                        [id |-> c.cuePoints[i].id,
                         position |-> c.cuePoints[i].position,
                         dataChunkId |-> c.cuePoints[i].dataChunkId,
                         chunkStart |-> c.cuePoints[i].chunkStart,
                         blockStart |-> c.cuePoints[i].blockStart,
                         sampleOffset |-> c.cuePoints[i].sampleOffset]]]
    [] c.id = "labl" ->
         [id |-> "labl", cuePointId |-> c.cuePointId, text |-> c.label \o <<0>>]
    [] c.id = "LIST" ->
         [id |-> "LIST", listType |-> c.listType,
          subs |-> [i \in 1..Len(c.subChunks) |->
                      [id |-> c.subChunks[i].id,
                       size |-> U32(ChunkSize(c.subChunks[i])),
                       payload |-> bytesOf(c.subChunks[i]),
                       pad |-> BOdd(ChunkSize(c.subChunks[i]))]]]
    [] c.id = "fmt " ->
         [id |-> "fmt ", formatTag |-> c.formatTag,
          channelCount |-> c.channelCount, sampleRate |-> c.sampleRate,
          bytesPerSecond |->
            BMulSmall(N(c.sampleRate), (c.channelCount * c.bitsPerSample) \div 8),
          blockAlignment |-> (c.channelCount * c.bitsPerSample) \div 8,
          bitsPerSample |-> c.bitsPerSample,
          cbSize |-> IF c.extraData.present THEN 22 ELSE 0,
          extraData |-> c.extraData]
    [] OTHER -> c

\* the six fields of CuePoint() as written to disk
ZeroCueRecord ==
  [id |-> 0, position |-> N(0), dataChunkId |-> ZeroId, chunkStart |-> 0,
   blockStart |-> 0, sampleOffset |-> N(0)]

\* FormatInfoChunk::blockAlignment()
BlockAlignment(fmt) == (fmt.channelCount * fmt.bitsPerSample) \div 8

\* ChunkHeader(id, size, position)
ChunkHeader(id, size, position) == [id |-> id, size |-> size, position |-> position]

\* std::map::operator[] assignment
MapSet(m, k, v) == [x \in (DOMAIN m) \cup {k} |-> IF x = k THEN v ELSE m[x]]

EmptyMap == [x \in {} |-> N(0)]

\* index of the first element of seq with the given id, 0 when there is none
\* (std::find_if over chunks_ / chunkHeaders_)
IndexOfId(seq, id) ==
  IF \E i \in 1..Len(seq) : seq[i].id = id
  THEN CHOOSE i \in 1..Len(seq) :
         /\ seq[i].id = id
         /\ \A j \in 1..(i - 1) : seq[j].id # id
  ELSE 0

-----------------------------------------------------------------------------
(* The output file stream.  s is a record holding the stream and the       *)
(* writer object's fields; every operator returns the record after the     *)
(* call.  s.threw is set when the call left by an exception.               *)

\* offset of the end of the file
EndPos(s) ==
  IF s.ext = <<>> THEN (IF s.riff.id = "none" THEN N(0) ELSE N(12))
  ELSE LET e == s.ext[Len(s.ext)] IN BAdd(BAdd(e.pos, N(8)), e.cap)

\* index of the extent whose header starts at pos, 0 when there is none
ExtentAt(s, pos) ==
  IF \E i \in 1..Len(s.ext) : s.ext[i].pos = pos
  THEN CHOOSE i \in 1..Len(s.ext) : s.ext[i].pos = pos
  ELSE 0

\* the bytes of an on-disk payload from offset 4 on are all zero
ZeroAfterCount(body) ==
  \/ "zeros" \in DOMAIN body
  \/ /\ body.id = "cue "
     /\ \A i \in 1..Len(body.points) : body.points[i] = ZeroCueRecord

\* utils::writeChunk(stream, chunk, chunkSizeForHeader): id, size field, then
\* (unless the chunk is the data chunk) the payload and a pad byte when the
\* payload length is odd; written at the stream's put position
StreamWriteChunk(s, chunk, hsize, len) ==
  LET plen == IF chunk.id = "data" THEN N(0) ELSE Pad(len)
      body == IF "zeros" \in DOMAIN chunk THEN chunk ELSE bytesOf(chunk)
      i    == ExtentAt(s, s.tellp)
  IN  IF ~s.isOpen THEN s
      ELSE IF s.tellp = EndPos(s)
      THEN [s EXCEPT !.ext = Append(@, [pos |-> s.tellp, id |-> body.id,
                                        hsize |-> hsize, body |-> body,
                                        valid |-> plen, cap |-> plen,
                                        tailZero |-> TRUE]),
                     !.tellp = BAdd(BAdd(s.tellp, N(8)), plen)]
      ELSE IF i # 0
      THEN LET e == s.ext[i] IN
           [s EXCEPT !.ext[i] = [e EXCEPT !.id = body.id, !.hsize = hsize,
                                  !.body = body, !.valid = plen,
                                  !.tailZero = /\ e.tailZero
                                               /\ \/ BLe(e.valid, plen)
                                                  \/ ZeroAfterCount(e.body)],
                     !.tellp = BAdd(BAdd(s.tellp, N(8)), plen)]
      ELSE s

\* utils::writeChunkPlaceholder(stream, id, size): header and size zero bytes
StreamWritePlaceholder(s, id, size) ==
  StreamWriteChunk(s, ZeroBody(id, size), size, size)

\* fileStream_.write(buf, n) / writeValue of n bytes at the end of the file:
\* the bytes follow the last chunk header written
StreamWriteBytes(s, n) ==
  LET k == Len(s.ext) IN
  IF ~s.isOpen \/ k = 0 \/ s.tellp # EndPos(s) THEN s
  ELSE [s EXCEPT !.ext[k].cap = BAdd(@, n),
                 !.ext[k].valid = IF s.ext[k].id = "data" THEN BAdd(@, n) ELSE @,
                 !.ext[k].tailZero = IF s.ext[k].id = "data" THEN @ ELSE FALSE,
                 !.tellp = BAdd(@, n)]

-----------------------------------------------------------------------------
(* Bw64Writer's private helpers (writer.hpp).                              *)

\* MAX_NUMBER_OF_UIDS
MAX_NUMBER_OF_UIDS == 1024

Throw(s) == [s EXCEPT !.threw = TRUE]

\* Bw64Writer::chunk<T>(chunks_, id): the first chunk with that id, or nullptr
cueChunkIndex(s) == IndexOfId(s.chunks_, "cue ")
chnaChunkIndex(s) == IndexOfId(s.chunks_, "chna")
dataChunk(s) == s.chunks_[IndexOfId(s.chunks_, "data")]
formatChunk(s) == s.chunks_[IndexOfId(s.chunks_, "fmt ")]

\* Bw64Writer::chunkSizeForHeader
chunkSizeForHeader(chunk) ==
  IF BLe(UINT32_MAX, ChunkSize(chunk)) THEN UINT32_MAX ELSE U32(ChunkSize(chunk))

\* Bw64Writer::riffChunkSize: end of file minus 8, put position restored
riffChunkSize(s) == BSub(EndPos(s), N(8))

\* Bw64Writer::writeRiffHeader
writeRiffHeader(s) ==
  [s EXCEPT !.riff = [id |-> "RIFF", size |-> UINT32_MAX, form |-> "WAVE"],
            !.tellp = N(12)]

\* Bw64Writer::writeChunk
writeChunk(s, chunk) ==
  LET s1 == [s EXCEPT !.chunkHeaders_ =
                 Append(@, ChunkHeader(chunk.id, ChunkSize(chunk), s.tellp))]
      s2 == StreamWriteChunk(s1, chunk, chunkSizeForHeader(chunk), ChunkSize(chunk))
  IN  [s2 EXCEPT !.chunks_ = Append(@, chunk)]

RECURSIVE writeChunks(_, _)
\* for (auto chunk : chunks) writeChunk(chunk);
writeChunks(s, chunks) ==
  IF chunks = <<>> THEN s
  ELSE writeChunks(writeChunk(s, Head(chunks)), Tail(chunks))

\* Bw64Writer::writeChunkPlaceholder
writeChunkPlaceholder(s, id, size) ==
  LET s1 == [s EXCEPT !.chunkHeaders_ = Append(@, ChunkHeader(id, size, s.tellp))]
  IN  StreamWritePlaceholder(s1, id, size)

\* Bw64Writer::seekChunk for an id that has a header
seekChunk(s, id) ==
  [s EXCEPT !.tellp = s.chunkHeaders_[IndexOfId(s.chunkHeaders_, id)].position]

\* overwriteChunk without the comparison against the reserved size
overwriteChunk_NoSizeCheck(s, id, chunk) ==
  LET h == IndexOfId(s.chunkHeaders_, id) IN
  IF h = 0 THEN Throw(s)
  ELSE LET last_position == s.tellp
           s1 == seekChunk(s, id)
           s2 == StreamWriteChunk(s1, chunk, chunkSizeForHeader(chunk),
                                  ChunkSize(chunk))
       IN  [s2 EXCEPT !.tellp = last_position]

\* Bw64Writer::overwriteChunk; chunkHeader(id) throws when no header has the id
overwriteChunk(s, id, chunk) ==
  LET h == IndexOfId(s.chunkHeaders_, id) IN
  IF h = 0 THEN Throw(s)
  ELSE IF BLt(s.chunkHeaders_[h].size, ChunkSize(chunk)) THEN Throw(s)
  ELSE LET last_position == s.tellp
           s1 == seekChunk(s, id)
           s2 == StreamWriteChunk(s1, chunk, chunkSizeForHeader(chunk),
                                  ChunkSize(chunk))
       IN  [s2 EXCEPT !.tellp = last_position]

\* a test that looks at the chunk headers only
isBw64File_HeadersOnly(s) ==
  \E i \in 1..Len(s.chunkHeaders_) : BLt(UINT32_MAX, s.chunkHeaders_[i].size)

\* Bw64Writer::isBw64File
isBw64File(s) ==
  \/ BLt(UINT32_MAX, riffChunkSize(s))
  \/ \E i \in 1..Len(s.chunkHeaders_) : BLt(UINT32_MAX, s.chunkHeaders_[i].size)

\* DataSize64Chunk::setChunkSize: the table holds the chunks other than data
setChunkSize(ds64, id, size) ==
  IF id = "data" THEN [ds64 EXCEPT !.dataSize = size]
  ELSE [ds64 EXCEPT !.table = MapSet(@, id, size)]

RECURSIVE setOversizedChunkSizes(_, _)
\* for (auto& header : chunkHeaders_)
\*   if (header.size > UINT32_MAX) ds64Chunk->setChunkSize(header.id, header.size);
setOversizedChunkSizes(ds64, headers) ==
  IF headers = <<>> THEN ds64
  ELSE LET h == Head(headers)
           d == IF BLt(UINT32_MAX, h.size) THEN setChunkSize(ds64, h.id, h.size)
                ELSE ds64
       IN  setOversizedChunkSizes(d, Tail(headers))

\* a ds64 chunk whose bw64Size is cut to 32 bits
overwriteJunkWithDs64Chunk_Truncated(s) ==
  LET ds0 == DataSize64Chunk(U32(riffChunkSize(s)), ChunkSize(dataChunk(s)), EmptyMap)
      ds64Chunk == setOversizedChunkSizes(ds0, s.chunkHeaders_)
  IN  overwriteChunk(s, "JUNK", ds64Chunk)

\* Bw64Writer::overwriteJunkWithDs64Chunk
overwriteJunkWithDs64Chunk(s) ==
  LET ds0 == DataSize64Chunk(riffChunkSize(s), ChunkSize(dataChunk(s)), EmptyMap)
      ds64Chunk == setOversizedChunkSizes(ds0, s.chunkHeaders_)
  IN  overwriteChunk(s, "JUNK", ds64Chunk)

\* Bw64Writer::finalizeRiffChunk
finalizeRiffChunk(s) ==
  IF isBw64File(s)
  THEN LET s1 == IF s.isOpen
                 THEN [s EXCEPT !.riff.id = IF s.useRf64Id_ THEN "RF64" ELSE "BW64",
                                !.riff.size = UINT32_MAX]
                 ELSE s
       IN  overwriteJunkWithDs64Chunk(s1)
  ELSE IF s.isOpen
       THEN [s EXCEPT !.riff.id = "RIFF", !.riff.size = U32(riffChunkSize(s))]
       ELSE s

\* Bw64Writer::finalizeDataChunk, first statement: the pad byte
padDataChunk(s) ==
  IF BOdd(ChunkSize(dataChunk(s))) THEN StreamWriteBytes(s, N(1)) ELSE s

\* Bw64Writer::finalizeDataChunk, the rest: seek to the data header, rewrite
\* id and size, seek back
patchDataHeader(s) ==
  LET last_position == s.tellp
      i == ExtentAt(s, s.chunkHeaders_[IndexOfId(s.chunkHeaders_, "data")].position)
  IN  IF ~s.isOpen \/ i = 0 THEN s
      ELSE [s EXCEPT !.ext[i].id = "data",
                     !.ext[i].hsize = chunkSizeForHeader(dataChunk(s)),
                     !.tellp = last_position]

RECURSIVE getLabels(_)
\* CueChunk::getLabels: map from cue point id to its non-empty label
getLabels(cuePoints) ==
  IF cuePoints = <<>> THEN EmptyMap
  ELSE LET n    == Len(cuePoints)
           cue  == cuePoints[n]
           rest == getLabels(SubSeq(cuePoints, 1, n - 1))
       IN  IF cue.label # <<>> THEN MapSet(rest, cue.id, cue.label) ELSE rest

RECURSIVE labelChunksOf(_, _)
\* one LabelChunk per entry of the map, in ascending key order (std::map iteration)
labelChunksOf(labels, keys) ==
  IF keys = {} THEN <<>>
  ELSE LET k == CHOOSE x \in keys : \A y \in keys : x <= y
       IN  <<LabelChunk(k, labels[k])>> \o labelChunksOf(labels, keys \ {k})

\* Bw64Writer::finalizeCueChunk
finalizeCueChunk(s) ==
  LET c == cueChunkIndex(s) IN
  IF c = 0 \/ s.chunks_[c].cuePoints = <<>> THEN s
  ELSE LET labels == getLabels(s.chunks_[c].cuePoints)
           s1 == IF DOMAIN labels # {}
                 THEN [s EXCEPT !.postDataChunks_ =
                         Append(@, ListChunk("adtl",
                                             labelChunksOf(labels, DOMAIN labels)))]
                 ELSE s
       IN  overwriteChunk(s1, "cue ", s.chunks_[c])

-----------------------------------------------------------------------------
(* Bw64Writer's constructor and public operations as functions of s.       *)

WAVE_FORMAT_PCM == 1
WAVE_FORMAT_IEEE_FLOAT == 3
WAVE_FORMAT_EXTENSIBLE == 65534

\* the stream and the writer's fields before the constructor body runs
Fresh ==
  [isOpen |-> TRUE, riff |-> [id |-> "none", size |-> N(0), form |-> "none"],
   ext |-> <<>>, tellp |-> N(0), chunks_ |-> <<>>, chunkHeaders_ |-> <<>>,
   postDataChunks_ |-> <<>>, useRf64Id_ |-> FALSE, threw |-> FALSE]

\* utils::correctChannelMask(channelMask, channels): a mask computed from
\* the two, kept as the pair it is computed from
correctChannelMask(channelMask, channels) ==
  [mask |-> channelMask, channels |-> channels]

\* the fmt chunk the constructor builds from its arguments; a subFormat GUID
\* is named by its first field
ctorFormatChunk(a) ==
  IF a.useExtensible
  THEN FormatInfoChunk(a.channels, a.sampleRate, a.bitDepth,
         ExtraData(a.bitDepth, correctChannelMask(a.channelMask, a.channels),
                   IF a.useFloat THEN WAVE_FORMAT_IEEE_FLOAT ELSE WAVE_FORMAT_PCM),
         WAVE_FORMAT_EXTENSIBLE)
  ELSE FormatInfoChunk(a.channels, a.sampleRate, a.bitDepth, NoExtraData,
         IF a.useFloat THEN WAVE_FORMAT_IEEE_FLOAT ELSE WAVE_FORMAT_PCM)

\* a cue placeholder written whatever maxMarkers is
ctorCuePlaceholder_Always(s, maxMarkers) ==
  LET s1 == writeChunk(s, CueChunk([i \in 1..(maxMarkers + 1) |-> EmptyCuePoint]))
  IN  [s1 EXCEPT !.chunks_[Len(s1.chunks_)].cuePoints = <<>>]

\* the cue placeholder: maxMarkers default-constructed cue points are written,
\* then the chunk object is emptied (cueChunk->clearCuePoints())
ctorCuePlaceholder(s, maxMarkers) ==
  IF maxMarkers > 0
  THEN LET s1 == writeChunk(s, CueChunk([i \in 1..maxMarkers |-> EmptyCuePoint]))
       IN  [s1 EXCEPT !.chunks_[Len(s1.chunks_)].cuePoints = <<>>]
  ELSE s

\* Bw64Writer::Bw64Writer with the chna placeholder written before the cue
\* placeholder
Bw64Writer_ChnaFirst(a) ==
  LET s1 == writeRiffHeader(Fresh)
      s2 == writeChunkPlaceholder(s1, "JUNK", N(40))
      s3 == writeChunk(s2, ctorFormatChunk(a))
      s4 == writeChunks(s3, a.preDataChunks)
      s5 == IF chnaChunkIndex(s4) = 0
            THEN writeChunkPlaceholder(s4, "chna", N(MAX_NUMBER_OF_UIDS * 40 + 4))
            ELSE s4
      s6 == ctorCuePlaceholder(s5, a.maxMarkers)
  IN  writeChunk(s6, DataChunk(N(0)))

\* Bw64Writer::Bw64Writer
Bw64Writer(a) ==
  LET s1 == writeRiffHeader(Fresh)
      s2 == writeChunkPlaceholder(s1, "JUNK", N(40))
      s3 == writeChunk(s2, ctorFormatChunk(a))
      s4 == writeChunks(s3, a.preDataChunks)
      s5 == ctorCuePlaceholder(s4, a.maxMarkers)
      s6 == IF chnaChunkIndex(s5) = 0
            THEN writeChunkPlaceholder(s5, "chna", N(MAX_NUMBER_OF_UIDS * 40 + 4))
            ELSE s5
  IN  writeChunk(s6, DataChunk(N(0)))

\* dataChunk()->setSize(size); chunkHeader("data").size = dataChunk()->size();
setDataSize(s, size) ==
  [s EXCEPT !.chunks_[IndexOfId(s.chunks_, "data")].size = size,
            !.chunkHeaders_[IndexOfId(s.chunkHeaders_, "data")].size = size]

\* write() growing the data chunk without updating its header-list entry
write_HeaderStale(s, frames) ==
  LET bytesWritten == BMulSmall(frames, BlockAlignment(formatChunk(s)))
      s1 == StreamWriteBytes(s, bytesWritten)
  IN  [s1 EXCEPT !.chunks_[IndexOfId(s.chunks_, "data")].size =
                   BAdd(ChunkSize(dataChunk(s)), bytesWritten)]

\* Bw64Writer::write(inBuffer, frames)
write(s, frames) ==
  LET bytesWritten == BMulSmall(frames, BlockAlignment(formatChunk(s)))
      s1 == StreamWriteBytes(s, bytesWritten)
  IN  setDataSize(s1, BAdd(ChunkSize(dataChunk(s)), bytesWritten))

\* Bw64Writer::writeRaw(inBuffer, frames) for a buffer of elemBits-wide elements;
\* the data size grows by the distance the put position moved
writeRaw(s, elemBits, frames) ==
  IF formatChunk(s).bitsPerSample # elemBits THEN Throw(s)
  ELSE LET bytesToWrite == BMulSmall(frames, BlockAlignment(formatChunk(s)))
           s1 == StreamWriteBytes(s, bytesToWrite)
           moved == IF s.isOpen THEN BSub(s1.tellp, s.tellp) ELSE N(0)
       IN  setDataSize(s1, BAdd(ChunkSize(dataChunk(s)), moved))

\* the orders std::sort may leave seq in: every permutation that is
\* non-decreasing in position (std::sort is not stable)
SortedByPosition(seq) ==
  \A i \in 1..(Len(seq) - 1) : ~BLt(seq[i + 1].position, seq[i].position)

\* no sorting at all
sortByPosition_Unsorted(seq) == {seq}

sortByPosition(seq) ==
  {p \in {[i \in 1..Len(seq) |-> seq[f[i]]] : f \in Permutations(1..Len(seq))} :
     SortedByPosition(p)}

\* a search that never finds the id
HasCueId_Never(cuePoints, id) == FALSE

HasCueId(cuePoints, id) == \E i \in 1..Len(cuePoints) : cuePoints[i].id = id

\* CueChunk::addCuePoint(id, position, label): the set of lists it may leave,
\* empty when it throws
addCuePoint(cuePoints, id, position, label) ==
  IF HasCueId(cuePoints, id) THEN {}
  ELSE sortByPosition(Append(cuePoints,
         [id |-> id, position |-> U32(position), dataChunkId |-> "data",
          chunkStart |-> 0, blockStart |-> 0, sampleOffset |-> U32(position),
          label |-> label]))

\* CueChunk::addCuePoint(const CuePoint&)
addCuePointCopy(cuePoints, cue) ==
  IF HasCueId(cuePoints, cue.id) THEN {}
  ELSE sortByPosition(Append(cuePoints, cue))

RECURSIVE addCuePoints(_, _)
\* the loop of Bw64Writer::addMarkers: pairs <<list, threw>> it may end with
addCuePoints(cuePoints, markers) ==
  IF markers = <<>> THEN {<<cuePoints, FALSE>>}
  ELSE LET r == addCuePointCopy(cuePoints, Head(markers))
       IN  IF r = {} THEN {<<cuePoints, TRUE>>}
           ELSE UNION {addCuePoints(l, Tail(markers)) : l \in r}

\* setChnaChunk without the limit on the UIDs and on the reserved size
setChnaChunk_Unchecked(s, chunk) == overwriteChunk_NoSizeCheck(s, "chna", chunk)

\* Bw64Writer::setChnaChunk
setChnaChunk(s, chunk) ==
  IF chunk.numUids > 1024 THEN Throw(s)
  ELSE overwriteChunk(s, "chna", chunk)

\* Bw64Writer::postDataChunk and Bw64Writer::setAxmlChunk
postDataChunk(s, chunk) == [s EXCEPT !.postDataChunks_ = Append(@, chunk)]

\* Bw64Writer::framesWritten
framesWritten(s) == BDivSmall(ChunkSize(dataChunk(s)), BlockAlignment(formatChunk(s)))

-----------------------------------------------------------------------------
(* Bw64Reader opened on a file f = [riff, ext] (reader.hpp, parser.hpp).   *)

\* utils::fourCC: the 32-bit value of the four characters, little-endian
fourCC(id) ==
  CASE id = "fmt " -> <<8308, 28006>>
    [] id = "cue " -> <<8293, 30051>>
    [] id = "chna" -> <<24942, 26723>>
    [] id = "data" -> <<24948, 24932>>
    [] id = "axml" -> <<27757, 30817>>
    [] id = "LIST" -> <<21587, 18764>>
    [] id = "JUNK" -> <<19278, 21834>>
    [] id = "ds64" -> <<13366, 29540>>
    [] id = "bext" -> <<29816, 25954>>
    [] OTHER       -> N(0)

FileEnd(f) ==
  IF f.ext = <<>> THEN N(12)
  ELSE LET e == f.ext[Len(f.ext)] IN BAdd(BAdd(e.pos, N(8)), e.cap)

ExtentEnd(e) == BAdd(BAdd(e.pos, N(8)), e.cap)

\* the 8 bytes at offset p read as a chunk header (utils::readValue twice).
\* kind "chunk": a header the writer put there; "zero": p lies in a run of zero
\* bytes, run counts the all-zero headers from p on; "split": four zero bytes
\* followed by the id of the next chunk; "garbage": anything else
ReadHeaderAt(f, p) ==
  LET i == CHOOSE k \in 1..Len(f.ext) :
             BLe(f.ext[k].pos, p) /\ BLt(p, ExtentEnd(f.ext[k]))
      e == f.ext[i]
      tailStart == BAdd(BAdd(e.pos, N(8)), e.valid)
      r == BSub(ExtentEnd(e), p)
  IN  IF p = e.pos
      THEN [kind |-> "chunk", id |-> e.id, size |-> e.hsize, ext |-> i, run |-> N(1)]
      ELSE IF e.tailZero /\ BLe(tailStart, p) /\ BLe(N(8), r)
      THEN [kind |-> "zero", id |-> ZeroId, size |-> N(0), ext |-> 0,
            run |-> BDivSmall(r, 8)]
      ELSE IF e.tailZero /\ BLe(tailStart, p) /\ r = N(4) /\ i < Len(f.ext)
      THEN [kind |-> "split", id |-> ZeroId, size |-> fourCC(f.ext[i + 1].id),
            ext |-> 0, run |-> N(1)]
      ELSE [kind |-> "garbage", id |-> ZeroId, size |-> N(0), ext |-> 0, run |-> N(1)]

\* getChunkSize64 that never looks into the ds64 table
getChunkSize64_NoTable(ds64, id, chunkSize) ==
  IF ds64.present
  THEN IF id = "BW64" \/ id = "RF64" THEN ds64.bw64Size
       ELSE IF id = "data" THEN ds64.dataSize
       ELSE chunkSize
  ELSE chunkSize

\* getChunkSize64 taking every size from the chunk header
getChunkSize64_HeaderOnly(ds64, id, chunkSize) == chunkSize

\* Bw64Reader::getChunkSize64; ds64 is [present |-> FALSE] while no ds64 chunk
\* has been parsed
getChunkSize64(ds64, id, chunkSize) ==
  IF ds64.present
  THEN IF id = "BW64" \/ id = "RF64" THEN ds64.bw64Size
       ELSE IF id = "data" THEN ds64.dataSize
       ELSE IF id \in DOMAIN ds64.table THEN ds64.table[id]
       ELSE chunkSize
  ELSE chunkSize

RECURSIVE parseChunkHeaders_NoEndCheck(_, _, _, _)
\* a directory walk that records a chunk without comparing its end with the
\* end of the file
parseChunkHeaders_NoEndCheck(f, p, ds64, acc) ==
  IF BLt(FileEnd(f), BAdd(p, N(8))) THEN [status |-> "ok", headers |-> acc]
  ELSE LET h == ReadHeaderAt(f, p)
           size64 == getChunkSize64(ds64, h.id, h.size)
           chunk_end == BAdd(BAdd(p, N(8)), size64)
           entry == [id |-> h.id, size |-> size64, position |-> p,
                     ext |-> h.ext, count |-> h.run]
       IN  IF h.kind = "garbage" THEN [status |-> "garbage", headers |-> acc]
           ELSE IF h.kind = "zero"
           THEN parseChunkHeaders_NoEndCheck(f, BAdd(p, BMulSmall(h.run, 8)), ds64,
                                             Append(acc, entry))
           ELSE parseChunkHeaders_NoEndCheck(
                  f,
                  BAdd(BAdd(p, N(8)),
                       IF BLt(chunk_end, FileEnd(f)) THEN Pad(size64) ELSE size64),
                  ds64, Append(acc, entry))

RECURSIVE parseChunkHeaders(_, _, _, _)
\* Bw64Reader::parseChunkHeaders from offset p on; acc are the headers recorded
\* so far.  A run of all-zero headers is recorded as one entry with its count.
parseChunkHeaders(f, p, ds64, acc) ==
  IF BLt(FileEnd(f), BAdd(p, N(8))) THEN [status |-> "ok", headers |-> acc]
  ELSE LET h == ReadHeaderAt(f, p)
           size64 == getChunkSize64(ds64, h.id, h.size)
           chunk_end == BAdd(BAdd(p, N(8)), size64)
           entry == [id |-> h.id, size |-> size64, position |-> p,
                     ext |-> h.ext, count |-> h.run]
       IN  IF h.kind = "garbage" THEN [status |-> "garbage", headers |-> acc]
           ELSE IF h.kind = "zero"
           THEN parseChunkHeaders(f, BAdd(p, BMulSmall(h.run, 8)), ds64,
                                  Append(acc, entry))
           ELSE IF BLt(FileEnd(f), chunk_end)
           THEN [status |-> "throw", headers |-> acc]
           ELSE parseChunkHeaders(
                  f,
                  BAdd(BAdd(p, N(8)),
                       IF BLt(chunk_end, FileEnd(f)) THEN Pad(size64) ELSE size64),
                  ds64, Append(acc, entry))

\* parseCueChunk on an on-disk cue payload with the declared size;
\* 4 + numCuePoints * 24 is computed in 32 bits.  When the count exceeds the
\* records of the payload the loop reads on in the stream: it throws when
\* the stream ends (body.following = "eof") and otherwise takes the bytes
\* that follow the payload as cue points, counted in `beyond`
parseCueChunk(body, size) ==
  IF BLt(size, N(4)) THEN [threw |-> TRUE]
  ELSE IF size # U32(BAdd(N(4), BMulSmall(N(body.numCuePoints), 24)))
  THEN [threw |-> TRUE]
  ELSE IF body.numCuePoints > Len(body.points)
  THEN IF body.following = "eof" THEN [threw |-> TRUE]
       ELSE [threw |-> FALSE, beyond |-> body.numCuePoints - Len(body.points)]
  ELSE [threw |-> FALSE, beyond |-> 0,
        chunk |-> CueChunk([i \in 1..body.numCuePoints |->
                    [id |-> body.points[i].id,
                     position |-> body.points[i].position,
                     dataChunkId |-> body.points[i].dataChunkId,
                     chunkStart |-> body.points[i].chunkStart,
                     blockStart |-> body.points[i].blockStart,
                     sampleOffset |-> body.points[i].sampleOffset,
                     label |-> <<>>]])]

\* the prefix of text before its first null byte (std::string::find('\0'))
UpToNull(text) ==
  IF \E i \in 1..Len(text) : text[i] = 0
  THEN SubSeq(text, 1,
              (CHOOSE i \in 1..Len(text) :
                 text[i] = 0 /\ \A j \in 1..(i - 1) : text[j] # 0) - 1)
  ELSE text

\* parseLabelChunk on an on-disk labl payload with the declared size
parseLabelChunk(payload, size) ==
  IF BLt(size, N(5)) THEN [threw |-> TRUE]
  ELSE [threw |-> FALSE,
        chunk |-> LabelChunk(payload.cuePointId, UpToNull(payload.text))]

RECURSIVE parseListChunk_Loop(_, _, _, _)
\* the while loop of parseListChunk: subs are the sub-chunk records the stream
\* holds after the list type, up to its end.  While bytesRead < size the next
\* record is read whole (header, payload, pad byte after an odd size); reading
\* a header at the end of the stream throws.  labl sub-chunks are parsed, any
\* other sub-chunk is kept by id only.
parseListChunk_Loop(subs, size, bytesRead, subChunks) ==
  IF ~BLt(bytesRead, size)
  THEN [threw |-> FALSE, bytesRead |-> bytesRead, subChunks |-> subChunks]
  ELSE IF subs = <<>> THEN [threw |-> TRUE]
  ELSE LET sub == IF Head(subs).id = "labl"
                  THEN parseLabelChunk(Head(subs).payload, Head(subs).size)
                  ELSE [threw |-> FALSE, chunk |-> [id |-> Head(subs).id]]
       IN  IF sub.threw THEN [threw |-> TRUE]
           ELSE parseListChunk_Loop(Tail(subs), size,
                  BAdd(BAdd(bytesRead, N(8)), Pad(Head(subs).size)),
                  Append(subChunks, sub.chunk))

\* parseListChunk on a LIST payload with the declared size: the ListChunk and
\* the number of payload bytes read, or threw
parseListChunk(body, size) ==
  IF body.id # "LIST" \/ BLt(size, N(4)) THEN [threw |-> TRUE]
  ELSE LET r == parseListChunk_Loop(body.subs, size, N(4), <<>>)
       IN  IF r.threw THEN [threw |-> TRUE]
           ELSE [threw |-> FALSE, bytesRead |-> r.bytesRead,
                 chunk |-> ListChunk(body.listType, r.subChunks)]

\* FormatInfoChunk::blockAlignment() and bytesPerSecond(), before narrowing
blockAlignmentOf(channels, bitDepth) == (channels * bitDepth) \div 8

bytesPerSecondOf(channels, sampleRate, bitDepth) ==
  BMulSmall(N(sampleRate), blockAlignmentOf(channels, bitDepth))

\* the FormatInfoChunk constructor throws: no channel, no sample rate, or a
\* derived field that does not fit its 16 or 32 bits
FormatInfoChunkThrows(channels, sampleRate, bitDepth) ==
  \/ channels < 1
  \/ sampleRate < 1
  \/ blockAlignmentOf(channels, bitDepth) > 65535
  \/ BLt(UINT32_MAX, bytesPerSecondOf(channels, sampleRate, bitDepth))

parseFormatInfoChunk_NoDerivedCheck(p, size) ==
  LET cbSize == IF size >= 18 THEN p.cbSize ELSE 0
  IN  IF \/ p.id # "fmt "
         \/ size < 16
         \/ size >= 18 /\ size # 18 + cbSize
         \/ size < 18 /\ size # 16
         \/ p.formatTag \in {WAVE_FORMAT_PCM, WAVE_FORMAT_IEEE_FLOAT} /\ cbSize # 0
         \/ p.formatTag = WAVE_FORMAT_EXTENSIBLE /\ cbSize # 22
         \/ p.formatTag = WAVE_FORMAT_EXTENSIBLE /\
              p.extraData.subFormat \notin {WAVE_FORMAT_PCM, WAVE_FORMAT_IEEE_FLOAT}
         \/ p.formatTag \notin
              {WAVE_FORMAT_PCM, WAVE_FORMAT_IEEE_FLOAT, WAVE_FORMAT_EXTENSIBLE}
         \/ FormatInfoChunkThrows(p.channelCount, p.sampleRate, p.bitsPerSample)
      THEN [threw |-> TRUE]
      ELSE [threw |-> FALSE,
            chunk |-> FormatInfoChunk(p.channelCount, p.sampleRate, p.bitsPerSample,
                        IF p.formatTag = WAVE_FORMAT_EXTENSIBLE THEN p.extraData
                        ELSE NoExtraData, p.formatTag)]

\* parseFormatInfoChunk on the payload p of a chunk whose header declares
\* `size` bytes: the chunk, or threw when any of its checks fails
parseFormatInfoChunk(p, size) ==
  LET r == parseFormatInfoChunk_NoDerivedCheck(p, size)
  IN  IF r.threw THEN r
      ELSE IF \/ blockAlignmentOf(p.channelCount, p.bitsPerSample) # p.blockAlignment
              \/ bytesPerSecondOf(p.channelCount, p.sampleRate, p.bitsPerSample)
                   # p.bytesPerSecond
      THEN [threw |-> TRUE]
      ELSE r

\* parseChunk for one recorded header
parseChunk(f, header) ==
  IF header.ext = 0 THEN [threw |-> FALSE, chunk |-> [id |-> header.id]]
  ELSE LET body == f.ext[header.ext].body IN
       CASE header.id = "cue " /\ body.id = "cue " -> parseCueChunk(body, header.size)
         [] header.id = "LIST" /\ body.id = "LIST" -> parseListChunk(body, header.size)
         [] header.id = "fmt " /\ body.id = "fmt " ->
              IF header.size[1] # 0 THEN [threw |-> TRUE]
              ELSE parseFormatInfoChunk(body, header.size[2])
         [] header.id = "data" ->
              [threw |-> FALSE, chunk |-> DataChunk(header.size)]
         [] OTHER -> [threw |-> FALSE, chunk |-> [id |-> header.id]]

\* std::map filled in chunk order: the label of the last labl sub-chunk of an
\* adtl LIST chunk for each cue point id
RECURSIVE cueLabelsOf(_)
cueLabelsOf(labls) ==
  IF labls = <<>> THEN EmptyMap
  ELSE LET n == Len(labls)
       IN  MapSet(cueLabelsOf(SubSeq(labls, 1, n - 1)),
                  labls[n].cuePointId, labls[n].label)

RECURSIVE Concat(_)
Concat(seqs) == IF seqs = <<>> THEN <<>> ELSE Head(seqs) \o Concat(Tail(seqs))

SelectSeqById(seq, id) ==
  LET Test(x) == x.id = id IN SelectSeq(seq, Test)

\* the labl sub-chunks of all LIST chunks of type adtl, in file order
adtlLabels(chunks) ==
  LET lists == SelectSeqById(chunks, "LIST")
      IsAdtl(l) == l.listType = "adtl"
      adtl == SelectSeq(lists, IsAdtl)
  IN  Concat([i \in 1..Len(adtl) |-> SelectSeqById(adtl[i].subChunks, "labl")])

\* Bw64Reader::associateCueLabels applied to the cue points of the cue chunk
associateCueLabels(cuePoints, chunks) ==
  LET cueLabels == cueLabelsOf(adtlLabels(chunks))
  IN  [i \in 1..Len(cuePoints) |->
         IF cuePoints[i].id \in DOMAIN cueLabels
         THEN [cuePoints[i] EXCEPT !.label = cueLabels[cuePoints[i].id]]
         ELSE cuePoints[i]]

RECURSIVE applyLabels(_, _)
\* the loops of Bw64Reader::getMarkers: each labl sub-chunk in turn sets the
\* label of the first marker that has its cue point id
applyLabels(markers, labls) ==
  IF labls = <<>> THEN markers
  ELSE LET l == Head(labls)
           k == IndexOfId(markers, l.cuePointId)
       IN  applyLabels(IF k = 0 THEN markers
                       ELSE [markers EXCEPT ![k].label = l.label],
                       Tail(labls))

\* the constructor asking for the data chunk only
hasFormatAndData_DataOnly(chunks) == IndexOfId(chunks, "data") # 0

\* the two checks that end Bw64Reader::Bw64Reader: a fmt chunk and a data
\* chunk are among the parsed chunks
hasFormatAndData(chunks) ==
  IndexOfId(chunks, "fmt ") # 0 /\ IndexOfId(chunks, "data") # 0

\* Bw64Reader::Bw64Reader: status "ok" with the chunks and headers, "throw" when
\* the constructor throws, "garbage" when the directory walk reads bytes that
\* are neither a header the writer wrote nor zero padding
Bw64Reader(f) ==
  LET NoDs64 == [present |-> FALSE]
      isBw64 == f.riff.id = "BW64" \/ f.riff.id = "RF64"
      first == f.ext[1]
      ds64 == IF isBw64 /\ f.ext # <<>> /\ first.id = "ds64"
              THEN [present |-> TRUE, bw64Size |-> first.body.bw64Size,
                    dataSize |-> first.body.dataSize, table |-> first.body.table]
              ELSE NoDs64
      start == IF isBw64 THEN BAdd(N(20), first.hsize) ELSE N(12)
      Constructed(headers, chunks, c) ==
        IF ~hasFormatAndData(chunks) THEN [status |-> "throw"]
        ELSE [status |-> "ok", chunkHeaders_ |-> headers,
              chunks_ |-> IF c = 0 THEN chunks
                          ELSE [chunks EXCEPT ![c].cuePoints =
                                  associateCueLabels(@, chunks)],
              tellg |-> BAdd(headers[IndexOfId(headers, "data")].position, N(8))]
      Parsed(headers, parsed) ==
        IF \E i \in 1..Len(parsed) : parsed[i].threw THEN [status |-> "throw"]
        ELSE Constructed(headers, [i \in 1..Len(parsed) |-> parsed[i].chunk],
                         IndexOfId(parsed, "cue "))
      Walked(walk) ==
        IF walk.status # "ok" THEN [status |-> walk.status]
        ELSE Parsed(walk.headers,
                    [i \in 1..Len(walk.headers) |->
                       LET p == parseChunk(f, walk.headers[i])
                       IN  IF p.threw THEN [threw |-> TRUE, id |-> "none"]
                           ELSE [threw |-> FALSE, id |-> p.chunk.id,
                                 chunk |-> p.chunk]])
  IN  IF f.riff.id \notin {"RIFF", "BW64", "RF64"} \/ f.riff.form # "WAVE"
      THEN [status |-> "throw"]
      ELSE IF isBw64 /\ (f.ext = <<>> \/ first.id # "ds64") THEN [status |-> "throw"]
      ELSE IF isBw64 /\ BLt(first.hsize, ChunkSize(first.body)) THEN [status |-> "throw"]
      ELSE Walked(parseChunkHeaders(f, start, ds64, <<>>))

\* Bw64Reader::blockAlignment on a reader r that was constructed
blockAlignment(r) ==
  LET fmt == r.chunks_[IndexOfId(r.chunks_, "fmt ")]
  IN  (fmt.channelCount * fmt.bitsPerSample) \div 8

\* Bw64Reader::numberOfFrames
numberOfFrames(r) ==
  BDivSmall(ChunkSize(r.chunks_[IndexOfId(r.chunks_, "data")]), blockAlignment(r))

\* Bw64Reader::dataStartPos
dataStartPos(r) ==
  BAdd(r.chunkHeaders_[IndexOfId(r.chunkHeaders_, "data")].position, N(8))

\* Bw64Reader::tell
tell(r) == BDivSmall(BSub(r.tellg, dataStartPos(r)), blockAlignment(r))

\* a frame count of the files read here as an integer
ToInt(b) == b[1] * Base + b[2]

\* An int64_t offset is [base, off]: off ("zero"), INT64_MAX - off ("max") or
\* INT64_MIN + off ("min"), with off >= 0 far below 2^62.  A uint64_t frame
\* count is off ("zero") or 2^64 - off ("top", off >= 1).
Wide(base, off) == [base |-> base, off |-> off]

\* Bw64Reader::seek(offset, way): the frames the cursor can be put on.
\* startFrame + offset overflows int64_t when the offset lies within
\* startFrame of INT64_MAX; the sum is then any int64_t, which the two
\* comparisons clamp into 0..numberOfFrames
seekFrames(r, offset, way) ==
  LET numberOfFramesInt == ToInt(numberOfFrames(r))
      startFrame == CASE way = "cur" -> ToInt(tell(r))
                      [] way = "beg" -> 0
                      [] way = "end" -> numberOfFramesInt
      frame == startFrame + offset.off
  IN  CASE offset.base = "zero" ->
             {IF frame < 0 THEN 0
              ELSE IF frame > numberOfFramesInt THEN numberOfFramesInt
              ELSE frame}
        [] offset.base = "min" -> {0}
        [] offset.base = "max" ->
             IF startFrame > offset.off THEN 0..numberOfFramesInt
             ELSE {numberOfFramesInt}

\* fileStream_.seekg(framePos) of seek()
seek(r, frame) ==
  [r EXCEPT !.tellg = BAdd(dataStartPos(r), N(frame * blockAlignment(r)))]

\* Bw64Reader::read(outBuffer, frames): tell() + frames is a uint64_t sum; when
\* it wraps around the count is not reduced and rawDataBuffer_.resize throws
read(r, frames) ==
  LET t == ToInt(tell(r))
      n == ToInt(numberOfFrames(r))
      wraps == frames.base = "top" /\ frames.off <= t
      count == IF frames.base = "top" \/ t + frames.off > n THEN n - t
               ELSE frames.off
  IN  IF wraps THEN [r |-> r, threw |-> TRUE, ret |-> 0]
      ELSE [r |-> [r EXCEPT !.tellg = BAdd(@, N(count * blockAlignment(r)))],
            threw |-> FALSE, ret |-> count]

\* Bw64Reader::readRaw(outBuffer, frames)
readRaw(r, frames) ==
  LET t == ToInt(tell(r))
      n == ToInt(numberOfFrames(r))
      count == IF frames.base = "top" \/ frames.off > n - t THEN n - t
               ELSE frames.off
  IN  [r |-> [r EXCEPT !.tellg = BAdd(@, N(count * blockAlignment(r)))],
       threw |-> FALSE, ret |-> count]

\* Bw64Reader::getMarkers on a reader r that was constructed
getMarkers(r) ==
  LET c == IndexOfId(r.chunks_, "cue ")
  IN  IF c = 0 THEN <<>>
      ELSE applyLabels(r.chunks_[c].cuePoints, adtlLabels(r.chunks_))

-----------------------------------------------------------------------------
(* The state machine: one writer object and the file it writes.            *)

VARIABLES
  isOpen,           \* fileStream_.is_open()
  riff,             \* the 12-byte outer header on disk
  ext,              \* the chunks on disk after the outer header
  tellp,            \* fileStream_'s put position
  chunks_,          \* Bw64Writer::chunks_
  chunkHeaders_,    \* Bw64Writer::chunkHeaders_
  postDataChunks_,  \* Bw64Writer::postDataChunks_
  useRf64Id_,       \* Bw64Writer::useRf64Id_
  args,             \* the arguments the constructor was called with
  pc,               \* "ready", or the statement of close() that runs next
  alive,            \* FALSE once the destructor has been entered
  lastCall,         \* the last public call that returned or threw; for
                    \* close() arg is <<made by the destructor, entered the
                    \* try block>>
  calls,            \* number of public calls made so far
  added,            \* the markers the addMarker / addMarkers calls inserted,
                    \* in insertion order
  reader,           \* the Bw64Reader object, [status |-> "none"] before one
                    \* is constructed
  probe,            \* the last application of a parser or codec function:
                    \* its input and its outcome
  returned          \* the sum of the frame counts write() and writeRaw()
                    \* returned to the caller

vars == <<isOpen, riff, ext, tellp, chunks_, chunkHeaders_, postDataChunks_,
          useRf64Id_, args, pc, alive, lastCall, calls, added, reader,
          probe, returned>>

\* no reader object exists
NoReader == [status |-> "none"]

\* no parser or codec function has been applied
NoProbe == [fn |-> "none"]

\* the writer and its stream as one record
S ==
  [isOpen |-> isOpen, riff |-> riff, ext |-> ext, tellp |-> tellp,
   chunks_ |-> chunks_, chunkHeaders_ |-> chunkHeaders_,
   postDataChunks_ |-> postDataChunks_, useRf64Id_ |-> useRf64Id_,
   threw |-> FALSE]

Set(s) ==
  /\ isOpen' = s.isOpen
  /\ riff' = s.riff
  /\ ext' = s.ext
  /\ tellp' = s.tellp
  /\ chunks_' = s.chunks_
  /\ chunkHeaders_' = s.chunkHeaders_
  /\ postDataChunks_' = s.postDataChunks_
  /\ useRf64Id_' = s.useRf64Id_

\* a cue point as the caller of addMarker sees it
Marker(cue) == [id |-> cue.id, position |-> cue.position, label |-> cue.label]

\* a public call other than close() made on a live object outside close(); it
\* leaves the writer as s, has inserted the markers new and has returned the
\* frame count ret
CallReturning(op, arg, s, new, ret) ==
  /\ pc = "ready"
  /\ alive
  /\ Set(s)
  /\ lastCall' = [op |-> op, arg |-> arg, threw |-> s.threw]
  /\ calls' = calls + 1
  /\ added' = added \o new
  /\ returned' = BAdd(returned, ret)
  /\ UNCHANGED <<args, pc, alive, reader, probe>>

CallAdding(op, arg, s, new) == CallReturning(op, arg, s, new, N(0))

Call(op, arg, s) == CallAdding(op, arg, s, <<>>)

InitWith(a) ==
  /\ isOpen = Bw64Writer(a).isOpen
  /\ riff = Bw64Writer(a).riff
  /\ ext = Bw64Writer(a).ext
  /\ tellp = Bw64Writer(a).tellp
  /\ chunks_ = Bw64Writer(a).chunks_
  /\ chunkHeaders_ = Bw64Writer(a).chunkHeaders_
  /\ postDataChunks_ = Bw64Writer(a).postDataChunks_
  /\ useRf64Id_ = Bw64Writer(a).useRf64Id_
  /\ args = a
  /\ pc = "ready"
  /\ alive = TRUE
  /\ lastCall = [op |-> "Bw64Writer", arg |-> <<>>, threw |-> FALSE]
  /\ calls = 0
  /\ added = <<>>
  /\ reader = NoReader
  /\ probe = NoProbe
  /\ returned = N(0)

\* writer.write(buffer, frames), which returns frames
Write(frames) ==
  CallReturning("write", <<frames>>, write(S, frames), <<>>, frames)

\* writer.writeRaw(buffer, frames) with a buffer of elemBits-wide elements,
\* which returns the number of whole frames the put position moved by
WriteRaw(elemBits, frames) ==
  LET s == writeRaw(S, elemBits, frames)
  IN  CallReturning("writeRaw", <<elemBits, frames>>, s, <<>>,
        IF s.threw THEN N(0)
        ELSE BDivSmall(BSub(ChunkSize(dataChunk(s)), ChunkSize(dataChunk(S))),
                       BlockAlignment(formatChunk(S))))

\* writer.addMarker(id, position, label)
AddMarker(id, position, label) ==
  LET c == cueChunkIndex(S) IN
  IF c = 0 THEN Call("addMarker", <<id>>, Throw(S))
  ELSE LET r == addCuePoint(chunks_[c].cuePoints, id, position, label) IN
       IF r = {} THEN Call("addMarker", <<id>>, Throw(S))
       ELSE \E l \in r :
              CallAdding("addMarker", <<id>>, [S EXCEPT !.chunks_[c].cuePoints = l],
                         <<[id |-> id, position |-> position, label |-> label]>>)

\* writer.addMarker(cuePoint)
AddMarkerCuePoint(cue) ==
  LET c == cueChunkIndex(S) IN
  IF c = 0 THEN Call("addMarker", <<cue.id>>, Throw(S))
  ELSE LET r == addCuePointCopy(chunks_[c].cuePoints, cue) IN
       IF r = {} THEN Call("addMarker", <<cue.id>>, Throw(S))
       ELSE \E l \in r :
              CallAdding("addMarker", <<cue.id>>,
                         [S EXCEPT !.chunks_[c].cuePoints = l], <<Marker(cue)>>)

\* writer.addMarkers(markers)
AddMarkers(markers) ==
  LET c == cueChunkIndex(S)
      ids == [i \in 1..Len(markers) |-> markers[i].id]
  IN
  IF c = 0 THEN Call("addMarkers", ids, Throw(S))
  ELSE \E r \in addCuePoints(chunks_[c].cuePoints, markers) :
         CallAdding("addMarkers", ids,
                    [S EXCEPT !.chunks_[c].cuePoints = r[1], !.threw = r[2]],
                    [i \in 1..(Len(r[1]) - Len(chunks_[c].cuePoints)) |->
                       Marker(markers[i])])

\* writer.postDataChunk(chunk) / writer.setAxmlChunk(chunk)
PostDataChunk(chunk) == Call("postDataChunk", <<chunk.id>>, postDataChunk(S, chunk))

\* writer.setChnaChunk(chunk)
SetChnaChunk(chunk) == Call("setChnaChunk", <<chunk.numUids>>, setChnaChunk(S, chunk))

\* writer.useRf64Id(state)
UseRf64Id(state) ==
  Call("useRf64Id", <<state>>, [S EXCEPT !.useRf64Id_ = state])

\* close() patching the outer header before it appends the post-data chunks
closeSteps_RiffBeforePost ==
  <<"padDataChunk", "patchDataHeader", "finalizeCueChunk", "finalizeRiffChunk",
    "writePostDataChunks", "closeStream">>

\* close() finalizing the cue chunk after it has patched the outer header
closeSteps_CueAfterRiff ==
  <<"padDataChunk", "patchDataHeader", "writePostDataChunks",
    "finalizeRiffChunk", "finalizeCueChunk", "closeStream">>

\* the statements of the try block of close(), in program order, the two
\* halves of finalizeDataChunk() listed one by one
closeSteps == <<"padDataChunk", "patchDataHeader", "finalizeCueChunk",
                "writePostDataChunks", "finalizeRiffChunk", "closeStream">>

\* the statement that follows step in close(); "return" after the last one
stepAfter(step) ==
  LET i == CHOOSE k \in 1..Len(closeSteps) : closeSteps[k] = step
  IN  IF i = Len(closeSteps) THEN "return" ELSE closeSteps[i + 1]

\* effect of one statement of the try block
closeStep(s, step) ==
  CASE step = "padDataChunk"        -> padDataChunk(s)
    [] step = "patchDataHeader"     -> patchDataHeader(s)
    [] step = "finalizeCueChunk"    -> finalizeCueChunk(s)
    [] step = "writePostDataChunks" -> writeChunks(s, s.postDataChunks_)
    [] step = "finalizeRiffChunk"   -> finalizeRiffChunk(s)
    [] step = "closeStream"         -> [s EXCEPT !.isOpen = FALSE]

\* entering close(): returns at once when the stream is not open
EnterClose(dtor) ==
  /\ pc = "ready"
  /\ alive
  /\ alive' = ~dtor
  /\ calls' = calls + 1
  /\ IF ~isOpen
     THEN /\ lastCall' = [op |-> "close", arg |-> <<dtor, FALSE>>, threw |-> FALSE]
          /\ pc' = "ready"
     ELSE /\ lastCall' = lastCall
          /\ pc' = closeSteps[1]
  /\ UNCHANGED <<isOpen, riff, ext, tellp, chunks_, chunkHeaders_,
                 postDataChunks_, useRf64Id_, args, added, reader, probe, returned>>

\* writer.close()
Close == EnterClose(FALSE)

\* ~Bw64Writer()
Destructor == EnterClose(TRUE)

\* one statement of the try block of close(); an exception goes to the handler
CloseStep ==
  /\ pc \notin {"ready", "catch"}
  /\ LET s == closeStep(S, pc) IN
     /\ Set(s)
     /\ IF s.threw
        THEN /\ pc' = "catch"
             /\ lastCall' = lastCall
        ELSE IF stepAfter(pc) = "return"
        THEN /\ pc' = "ready"
             /\ lastCall' = [op |-> "close", arg |-> <<~alive, TRUE>>, threw |-> FALSE]
        ELSE /\ pc' = stepAfter(pc)
             /\ lastCall' = lastCall
  /\ UNCHANGED <<args, alive, calls, added, reader, probe, returned>>

\* a handler that rethrows without closing the stream
CloseCatch_NoClose ==
  /\ pc = "catch"
  /\ pc' = "ready"
  /\ lastCall' = [op |-> "close", arg |-> <<~alive, TRUE>>, threw |-> TRUE]
  /\ UNCHANGED <<isOpen, riff, ext, tellp, chunks_, chunkHeaders_,
                 postDataChunks_, useRf64Id_, args, alive, calls, added, reader,
                 probe, returned>>

\* catch (...) { fileStream_.close(); throw; }
CloseCatch ==
  /\ pc = "catch"
  /\ isOpen' = FALSE
  /\ pc' = "ready"
  /\ lastCall' = [op |-> "close", arg |-> <<~alive, TRUE>>, threw |-> TRUE]
  /\ UNCHANGED <<riff, ext, tellp, chunks_, chunkHeaders_, postDataChunks_,
                 useRf64Id_, args, alive, calls, added, reader, probe, returned>>

-----------------------------------------------------------------------------
(* Bounds and the inputs the calls are made with.                          *)

\* largest maxMarkers a writer is opened with
MaxMarkers == 2
\* public calls made on one writer
MaxCalls == 3
\* marker ids are 1..MaxId
MaxId == 3

Pcm8Mono ==
  [channels |-> 1, bitDepth |-> 8, useExtensible |-> FALSE, useFloat |-> FALSE,
   channelMask |-> 0, sampleRate |-> 48000]
Pcm16Mono ==
  [channels |-> 1, bitDepth |-> 16, useExtensible |-> FALSE, useFloat |-> FALSE,
   channelMask |-> 0, sampleRate |-> 48000]
Float32Ext ==
  [channels |-> 1, bitDepth |-> 32, useExtensible |-> TRUE, useFloat |-> TRUE,
   channelMask |-> 0, sampleRate |-> 48000]

\* a cue chunk built by the caller, as in serialize_deserialize_markers_and_labels,
\* here with its cue points out of position order
CallerCueChunk ==
  CueChunk(<<MakeCuePoint(1, N(5), <<65>>), MakeCuePoint(2, N(3), <<>>)>>)

PreDataChoices ==
  {<<>>, <<CallerCueChunk>>, <<ChnaChunk(1)>>, <<OpaqueChunk("axml", N(7))>>}

CtorArgs(formats, preData, markerCounts) ==
  {[channels |-> f.channels, sampleRate |-> f.sampleRate,
    bitDepth |-> f.bitDepth, preDataChunks |-> p, useExtensible |-> f.useExtensible,
    useFloat |-> f.useFloat, channelMask |-> f.channelMask, maxMarkers |-> m] :
     f \in formats, p \in preData, m \in markerCounts}

Positions == {N(3), N(5)}
Labels == {<<>>, <<65>>, <<66, 67>>}
SmallFrames == {N(1), N(2)}

-----------------------------------------------------------------------------
(* The writer driven through its whole interface with small inputs.        *)

Init == \E a \in CtorArgs({Pcm8Mono, Float32Ext}, PreDataChoices, 0..MaxMarkers) :
          InitWith(a)

DoWrite == calls < MaxCalls /\ \E f \in SmallFrames : Write(f)

DoWriteRaw == calls < MaxCalls /\ \E b \in {8, 16} : WriteRaw(b, N(1))

DoAddMarker ==
  /\ calls < MaxCalls
  /\ \E id \in 1..2, p \in Positions, l \in {<<>>, <<65>>} : AddMarker(id, p, l)

DoPostDataChunk ==
  /\ calls < MaxCalls
  /\ \E c \in {OpaqueChunk("axml", N(7))} : PostDataChunk(c)

DoSetChnaChunk ==
  /\ calls < MaxCalls
  /\ \E n \in {2, MAX_NUMBER_OF_UIDS + 1} : SetChnaChunk(ChnaChunk(n))

DoClose == calls < MaxCalls /\ Close

DoDestructor == Destructor

Next ==
  \/ DoWrite
  \/ DoWriteRaw
  \/ DoAddMarker
  \/ DoPostDataChunk
  \/ DoSetChnaChunk
  \/ DoClose
  \/ DoDestructor
  \/ CloseStep
  \/ CloseCatch

Spec == Init /\ [][Next]_vars

-----------------------------------------------------------------------------
(* Properties.                                                             *)

\* the data chunk's extent on disk
DataExtent == IndexOfId(ext, "data")

\* the first cue chunk's extent on disk, 0 when there is none
CueExtent == IndexOfId(ext, "cue ")

\* the pad byte after an odd number of data bytes is on disk
PadEmitted == ext[DataExtent].cap = Pad(ChunkSize(dataChunk(S)))

\* the data header on disk carries the final size
DataHeaderPatched == ext[DataExtent].hsize = chunkSizeForHeader(dataChunk(S))

\* some cue point of the writer's cue chunk has a label
HasLabels ==
  /\ cueChunkIndex(S) # 0
  /\ \E i \in 1..Len(chunks_[cueChunkIndex(S)].cuePoints) :
       chunks_[cueChunkIndex(S)].cuePoints[i].label # <<>>

\* the cue chunk on disk is the writer's cue chunk (nothing to patch when the
\* writer has no cue chunk or no cue point), and its labels are queued
MarkersFinalized ==
  LET c == cueChunkIndex(S) IN
  \/ c = 0
  \/ chunks_[c].cuePoints = <<>>
  \/ /\ ext[CueExtent].body = bytesOf(chunks_[c])
     /\ HasLabels => \E i \in 1..Len(postDataChunks_) :
                       /\ postDataChunks_[i].id = "LIST"
                       /\ postDataChunks_[i].listType = "adtl"

\* every queued post-data chunk is on disk after the data chunk, in queue order
PostDataOnDisk ==
  /\ Len(ext) = DataExtent + Len(postDataChunks_)
  /\ \A i \in 1..Len(postDataChunks_) :
       ext[DataExtent + i].body = bytesOf(postDataChunks_[i])

\* the outer header still is what writeRiffHeader wrote
RiffUnpatched == riff.id = "RIFF" /\ riff.size = UINT32_MAX

C1_Step ==
  /\ ext'[DataExtent].hsize # ext[DataExtent].hsize => PadEmitted
  /\ (pc # "ready" /\ (chunks_' # chunks_ \/ postDataChunks_' # postDataChunks_
                       \/ (CueExtent # 0 /\ ext'[CueExtent] # ext[CueExtent])))
       => PadEmitted /\ DataHeaderPatched
  /\ Len(ext') > Len(ext)
       => PadEmitted /\ DataHeaderPatched /\ MarkersFinalized
  /\ riff' # riff
       => /\ PadEmitted /\ DataHeaderPatched /\ MarkersFinalized /\ PostDataOnDisk
          /\ isOpen
  /\ (isOpen /\ ~isOpen' /\ ~lastCall'.threw)
       => /\ ~RiffUnpatched
          /\ PostDataOnDisk
          /\ riff.id = "RIFF" => riff.size = BSub(EndPos(S), N(8))

\* C1: close() emits the pad byte, then patches the data header, then finalizes
\* the markers, then appends the queued post-data chunks, then patches the
\* outer header, then closes the file; the group size written into a RIFF header
\* is the size of the file with every post-data chunk in it, minus 8.
C1_CloseOrder == [][C1_Step]_vars

\* a close() that returned after padding an odd data chunk, patching a cue
\* chunk with a labelled marker and appending the LIST chunk
C1_Witness ==
  /\ ~isOpen /\ pc = "ready" /\ lastCall.op = "close" /\ ~lastCall.threw
  /\ BOdd(ChunkSize(dataChunk(S)))
  /\ HasLabels
  /\ postDataChunks_ # <<>>
  /\ ~RiffUnpatched

\* a step that enters close()
IsCloseCall ==
  /\ pc = "ready"
  /\ calls' = calls + 1
  /\ pc' # "ready" \/ lastCall'.op = "close"

\* C2: when close() throws the stream has been closed, a closed stream stays
\* closed, and close() on a closed stream returns at once, without throwing and
\* without touching the file.
C2_FailedCloseReleases ==
  /\ []((pc = "ready" /\ lastCall.op = "close" /\ lastCall.threw) => ~isOpen)
  /\ [][(~isOpen => ~isOpen')
        /\ ((~isOpen /\ IsCloseCall)
              => /\ pc' = "ready"
                 /\ lastCall'.op = "close" /\ ~lastCall'.threw
                 /\ riff' = riff /\ ext' = ext)]_vars

\* the destructor has run close() on a writer whose earlier close() threw
\* while patching the cue chunk: the outer header is still the placeholder
C2_Witness ==
  /\ ~alive /\ ~isOpen /\ pc = "ready"
  /\ lastCall.op = "close" /\ ~lastCall.threw
  /\ RiffUnpatched

\* the chunks the constructor is to emit for the arguments a: id and size
ExpectedOpening(a) ==
  LET pre == a.preDataChunks IN
  <<[id |-> "JUNK", size |-> N(40)], [id |-> "fmt ", size |-> N(0)]>>
  \o [i \in 1..Len(pre) |-> [id |-> pre[i].id, size |-> ChunkSize(pre[i])]]
  \o (IF a.maxMarkers > 0
      THEN <<[id |-> "cue ", size |-> N(4 + 24 * a.maxMarkers)]>> ELSE <<>>)
  \o (IF \E i \in 1..Len(pre) : pre[i].id = "chna"
      THEN <<>> ELSE <<[id |-> "chna", size |-> N(1024 * 40 + 4)]>>)
  \o <<[id |-> "data", size |-> N(0)]>>

\* C10: right after construction the file holds, back to back from offset 12,
\* JUNK(40), fmt, the pre-data chunks, cue(4 + 24 * maxMarkers) iff
\* maxMarkers > 0, chna(1024 * 40 + 4) iff no pre-data chunk is a chna chunk,
\* and the data header with size 0; until close() is called the data chunk
\* stays the last chunk of the file.
C10_OpeningLayout ==
  LET exp == ExpectedOpening(args) IN
  /\ calls = 0 =>
       /\ Len(ext) = Len(exp)
       /\ \A i \in 1..Len(ext) :
            /\ ext[i].id = exp[i].id
            /\ exp[i].id # "fmt " => ext[i].hsize = exp[i].size
            /\ ext[i].cap = Pad(ext[i].hsize)
            /\ ext[i].pos = IF i = 1 THEN N(12) ELSE ExtentEnd(ext[i - 1])
  /\ (isOpen /\ pc = "ready") =>
       /\ Len(ext) = Len(exp)
       /\ ext[Len(ext)].id = "data"

\* a writer just constructed with a caller's chunk and a cue placeholder
C10_Witness ==
  /\ calls = 0
  /\ args.maxMarkers > 0
  /\ args.preDataChunks # <<>>
  /\ IndexOfId(ext, "cue ") # 0

-----------------------------------------------------------------------------
(* The marker interface: a writer opened with or without a caller's cue     *)
(* chunk, driven through both addMarker overloads, addMarkers, write and   *)
(* close.                                                                  *)

\* the cue points the callers of addMarker(CuePoint) pass
CuePointChoices ==
  {MakeCuePoint(id, p, l) : id \in 1..MaxId, p \in Positions, l \in {<<>>, <<66>>}}

\* the vectors the callers of addMarkers pass: empty, or two unlabelled markers
MarkerLists ==
  LET m == {MakeCuePoint(id, p, <<>>) : id \in {1, MaxId}, p \in Positions}
  IN  {<<>>} \cup {<<a, b>> : a \in m, b \in m}

InitMarkers ==
  \E a \in CtorArgs({Pcm8Mono}, {<<>>, <<CallerCueChunk>>}, 0..MaxMarkers) :
     InitWith(a)

\* public calls made on one writer of the marker specification
MaxMarkerCalls == 2

DoAddMarkerAnyId ==
  /\ calls < MaxMarkerCalls
  /\ \E id \in 1..MaxId, p \in Positions, l \in {<<>>, <<65>>} : AddMarker(id, p, l)

DoAddMarkerCuePoint ==
  calls < MaxMarkerCalls /\ \E cue \in CuePointChoices : AddMarkerCuePoint(cue)

DoAddMarkers == calls < MaxMarkerCalls /\ \E ms \in MarkerLists : AddMarkers(ms)

DoWriteFrames == calls < MaxMarkerCalls /\ \E f \in SmallFrames : Write(f)

DoCloseMarked == calls < MaxMarkerCalls /\ Close

NextMarkers ==
  \/ DoAddMarkerAnyId
  \/ DoAddMarkerCuePoint
  \/ DoAddMarkers
  \/ DoWriteFrames
  \/ DoCloseMarked
  \/ DoDestructor
  \/ CloseStep
  \/ CloseCatch

SpecMarkers == InitMarkers /\ [][NextMarkers]_vars

\* the file as a reader finds it
File == [riff |-> riff, ext |-> ext]

\* the writer's first cue chunk's cue points, none when it has no cue chunk
cuePointsOf(s) ==
  IF cueChunkIndex(s) = 0 THEN <<>> ELSE s.chunks_[cueChunkIndex(s)].cuePoints

\* the constructor was given a cue chunk among the pre-data chunks
CallerGaveCueChunk == IndexOfId(args.preDataChunks, "cue ") # 0

\* the close() that finalized the file has just returned normally
ClosedNormally ==
  /\ ~isOpen /\ pc = "ready"
  /\ lastCall.op = "close" /\ lastCall.arg[2] /\ ~lastCall.threw

\* getMarkers() of a reader opened on the file returns exactly the markers
\* added, in non-decreasing position order
ReaderReturnsAdded ==
  LET r == Bw64Reader(File) IN
  /\ r.status = "ok"
  /\ LET m == getMarkers(r) IN
     /\ Len(m) = Len(added)
     /\ {Marker(m[i]) : i \in 1..Len(m)} = {added[i] : i \in 1..Len(added)}
     /\ SortedByPosition(m)

\* C3: a writer opened with maxMarkers = N, k <= N successful addMarker calls,
\* frame writes and close(): a reader's getMarkers() returns exactly the k
\* markers added, with their ids, positions and labels, in position order.
C3_MarkerRoundTrip ==
  (ClosedNormally /\ ~CallerGaveCueChunk /\ Len(added) <= args.maxMarkers)
    => ReaderReturnsAdded

\* the same with at least one marker added
C3_RoundTripOfSomeMarkers ==
  (ClosedNormally /\ ~CallerGaveCueChunk /\ Len(added) <= args.maxMarkers
     /\ added # <<>>)
    => ReaderReturnsAdded

\* with no marker added the reader returns the constructor's placeholder:
\* maxMarkers cue points with id 0 at position 0
C3_PlaceholderRead ==
  (ClosedNormally /\ ~CallerGaveCueChunk /\ added = <<>> /\ args.maxMarkers > 0)
    => LET r == Bw64Reader(File) IN
       /\ r.status = "ok"
       /\ Len(getMarkers(r)) = args.maxMarkers
       /\ \A i \in 1..args.maxMarkers :
            Marker(getMarkers(r)[i]) = [id |-> 0, position |-> N(0), label |-> <<>>]

\* a file closed with a frame in it and no marker added, whose reader returns
\* a marker all the same
C3_Witness ==
  /\ ClosedNormally /\ ~CallerGaveCueChunk
  /\ added = <<>> /\ args.maxMarkers = 1
  /\ ChunkSize(dataChunk(S)) # N(0)
  /\ Bw64Reader(File).status = "ok"
  /\ Len(getMarkers(Bw64Reader(File))) = 1

\* a file closed with fewer markers than slots, one of them labelled, read back
C3_SomeMarkersRead ==
  /\ ClosedNormally /\ ~CallerGaveCueChunk
  /\ Len(added) = 1 /\ args.maxMarkers = 2
  /\ added[1].label # <<>>
  /\ ReaderReturnsAdded

\* some cue point of the list has the id
HoldsId(cuePoints, id) == id \in {cuePoints[i].id : i \in 1..Len(cuePoints)}

\* a step that is a call of one of the addMarker overloads
IsAddMarkerCall ==
  /\ pc = "ready" /\ pc' = "ready"
  /\ calls' = calls + 1
  /\ lastCall'.op = "addMarker"

C4_Step ==
  /\ (IsAddMarkerCall /\ args.maxMarkers >= 1 /\ lastCall'.threw)
       => HoldsId(cuePointsOf(S), lastCall'.arg[1])
  /\ pc \in {"padDataChunk", "patchDataHeader"} => pc' = stepAfter(pc)
  /\ (pc = "finalizeCueChunk" /\ args.maxMarkers >= 1
        /\ Len(added) > args.maxMarkers)
       => pc' = "catch"
  /\ pc = "catch" => lastCall'.op = "close" /\ lastCall'.threw

\* C4: on a writer opened with maxMarkers = N >= 1 an addMarker call throws
\* only for a duplicate id, however many cue points the chunk holds; the
\* close() that finalizes the file reaches the cue chunk and throws there when
\* more than N markers have been added.
C4_CloseFailsWhenOverfull == [][C4_Step]_vars

\* close() has thrown on a writer holding more markers than it reserved
C4_Witness ==
  /\ pc = "ready" /\ lastCall.op = "close" /\ lastCall.threw
  /\ ~CallerGaveCueChunk
  /\ args.maxMarkers >= 1
  /\ Len(cuePointsOf(S)) > args.maxMarkers
  /\ Len(added) = Len(cuePointsOf(S))

C5_Step ==
  (IsAddMarkerCall /\ HoldsId(cuePointsOf(S), lastCall'.arg[1]))
    => /\ lastCall'.threw
       /\ chunks_' = chunks_
       /\ added' = added

\* C5: addMarker(id, position, label) and addMarker(CuePoint) throw when the
\* writer's cue chunk already holds a cue point with the id, and leave the
\* cue points as they were.
C5_DuplicateIdFails == [][C5_Step]_vars

\* an addMarker call has thrown for the id of a marker added before
C5_Witness ==
  /\ lastCall.op = "addMarker" /\ lastCall.threw
  /\ \E i \in 1..Len(added) : added[i].id = lastCall.arg[1]

\* a step that inserted a cue point
Inserted == added' # added

NoMarkerAdded ==
  /\ added = <<>>
  /\ lastCall.op \in {"addMarker", "addMarkers"} => lastCall.threw

\* C7 as stated: with maxMarkers = 0 every addMarker and addMarkers call fails
\* and adds no marker, whatever the pre-data chunks.
C7_NoReservationNoMarkers == args.maxMarkers = 0 => NoMarkerAdded

\* C7: with maxMarkers = 0 and no cue chunk among the pre-data chunks every
\* addMarker and addMarkers call fails and adds no marker.
C7_NoCueChunkNoMarkers ==
  (args.maxMarkers = 0 /\ ~CallerGaveCueChunk) => NoMarkerAdded

\* addMarkers has thrown on a writer that has no cue chunk
C7_Witness ==
  /\ args.maxMarkers = 0 /\ ~CallerGaveCueChunk
  /\ cueChunkIndex(S) = 0
  /\ lastCall.op = "addMarkers" /\ lastCall.threw

-----------------------------------------------------------------------------
(* File sizes around 2^32: an 8-bit mono writer (one byte per frame) given  *)
(* large writes and large post-data chunks.                                *)

\* public calls made on one writer of the size specification
MaxSizeCalls == 3

\* 2^32
TwoTo32 == BAdd(UINT32_MAX, N(1))

\* size of the file of a writer opened without pre-data chunks and markers:
\* outer header, JUNK, fmt, chna placeholder and data header
EmptyFileSize ==
  BAdd(N(12 + 8 + 40 + 8 + 16 + 8), BAdd(N(MAX_NUMBER_OF_UIDS * 40 + 4), N(8)))

\* frame counts that bring the file to 2^32 - 8, 2^32 and 2^32 + 8 bytes, and
\* the data chunk alone to 2^32 bytes
BigFrames ==
  {BSub(BSub(TwoTo32, EmptyFileSize), N(8)), BSub(TwoTo32, EmptyFileSize),
   BAdd(BSub(TwoTo32, EmptyFileSize), N(8)), TwoTo32}

\* post-data chunks: small, and larger than 2^32 - 1 bytes under two ids
BigChunks ==
  {OpaqueChunk("axml", N(7)), OpaqueChunk("axml", BAdd(TwoTo32, N(10))),
   OpaqueChunk("bext", BAdd(TwoTo32, N(4)))}

InitSizes == \E a \in CtorArgs({Pcm8Mono}, {<<>>}, {0}) : InitWith(a)

DoWriteBig ==
  calls < MaxSizeCalls /\ \E f \in BigFrames \cup SmallFrames : Write(f)

DoPostBigChunk == calls < MaxSizeCalls /\ \E c \in BigChunks : PostDataChunk(c)

DoUseRf64Id == calls < MaxSizeCalls /\ \E b \in BOOLEAN : UseRf64Id(b)

DoCloseSized == calls < MaxSizeCalls /\ Close

NextSizes ==
  \/ DoWriteBig
  \/ DoPostBigChunk
  \/ DoUseRf64Id
  \/ DoCloseSized
  \/ DoDestructor
  \/ CloseStep
  \/ CloseCatch

SpecSizes == InitSizes /\ [][NextSizes]_vars

\* the chunk headers of the chunks larger than 2^32 - 1 bytes
Oversized ==
  {j \in 1..Len(chunkHeaders_) : BLt(UINT32_MAX, chunkHeaders_[j].size)}

\* the headers the writer keeps are those of the chunks on disk, size by size
HeadersMatchDisk ==
  /\ Len(chunkHeaders_) = Len(ext)
  /\ \A j \in 1..Len(ext) :
       /\ chunkHeaders_[j].position = ext[j].pos
       /\ ext[j].cap = Pad(chunkHeaders_[j].size)

\* the id a promoted file is given
PromotedId == IF useRf64Id_ THEN "RF64" ELSE "BW64"

\* the outer header after the step is that of a promoted file
PromotedNext == riff'.id = PromotedId /\ riff'.size = UINT32_MAX

\* the outer header after the step is RIFF with the file size minus 8
PlainNext ==
  /\ riff'.id = "RIFF"
  /\ riff'.size = BSub(EndPos(S), N(8))
  /\ BLe(riff'.size, UINT32_MAX)

C8_LargeRiff ==
  /\ ClosedNormally
  /\ BLt(UINT32_MAX, EndPos(S))
  /\ riff.id = "RIFF"

\* the oversized chunks other than the data chunk
OtherOversized == {j \in Oversized : chunkHeaders_[j].id # "data"}

\* the file has to be promoted
PromotionDue == BLt(UINT32_MAX, BSub(EndPos(S), N(8))) \/ Oversized # {}

\* the ds64 chunk on disk after the step records the size of header j
RecordedNext(j) ==
  LET ds64 == ext'[1].body
      h == chunkHeaders_[j]
  IN  IF h.id = "data" THEN ds64.dataSize = h.size
      ELSE h.id \in DOMAIN ds64.table /\ ds64.table[h.id] = h.size

C9_Step ==
  (pc = "finalizeRiffChunk" /\ PromotionDue /\ Cardinality(OtherOversized) <= 1)
    => /\ HeadersMatchDisk
       /\ pc' # "catch"
       /\ ext[1].id = "JUNK" /\ ext'[1].id = "ds64"
       /\ ext'[1].pos = N(12) /\ ext'[1].hsize = ChunkSize(ext'[1].body)
       /\ BLe(ext'[1].hsize, N(40))
       /\ ext'[1].body.dataSize = ChunkSize(dataChunk(S))
       /\ ext'[1].body.bw64Size = BSub(EndPos(S), N(8))
       /\ EndPos(S)' = EndPos(S)
       /\ \A j \in Oversized : ext'[j].hsize = UINT32_MAX /\ RecordedNext(j)

\* C9: when close() promotes a file whose oversized chunks are the data chunk
\* and at most one other chunk, the JUNK placeholder becomes a ds64 chunk with
\* dataSize the number of data bytes written and bw64Size the file size minus
\* 8, and every chunk larger than 2^32 - 1 bytes has 0xFFFFFFFF in its header
\* and its size in ds64; the data size the writer keeps is the number of bytes
\* in the data chunk on disk and does not change during close().
C9_Ds64OnPromotion ==
  /\ [][C9_Step]_vars
  /\ []((isOpen /\ pc \in {"ready", "padDataChunk"})
          => ext[DataExtent].valid = ChunkSize(dataChunk(S)))
  /\ [][pc # "ready" => ChunkSize(dataChunk(S))' = ChunkSize(dataChunk(S))]_vars

\* a promoted file with an oversized data chunk and an oversized axml chunk
C9_Witness ==
  /\ ClosedNormally
  /\ riff.id = "BW64"
  /\ ext[1].id = "ds64"
  /\ BLt(UINT32_MAX, ext[1].body.dataSize)
  /\ DOMAIN ext[1].body.table = {"axml"}
  /\ ext[DataExtent].hsize = UINT32_MAX

-----------------------------------------------------------------------------
(* Writers of every sample format, and the frames they write.              *)

\* public calls made on one writer of the format specification
MaxFormatCalls == 3

\* the constructor's format arguments: one or two channels, 16-bit PCM or
\* 32-bit PCM or float, extensible or not, with and without a channel mask
FormatChoices ==
  {f \in [channels : {1, 2}, bitDepth : {16, 32}, useExtensible : BOOLEAN,
          useFloat : BOOLEAN, channelMask : {0, 3}, sampleRate : {48000}] :
     f.useFloat => f.bitDepth = 32}

InitFormats == \E a \in CtorArgs(FormatChoices, {<<>>}, {0}) : InitWith(a)

DoWriteFormat == calls < MaxFormatCalls /\ \E f \in SmallFrames : Write(f)

DoWriteRawFormat ==
  calls < MaxFormatCalls /\ \E b \in {16, 32}, f \in SmallFrames : WriteRaw(b, f)

DoCloseFormat == calls < MaxFormatCalls /\ Close

\* without markers and oversized chunks no statement of close() throws
NextFormats ==
  \/ DoWriteFormat
  \/ DoWriteRawFormat
  \/ DoCloseFormat
  \/ DoDestructor
  \/ CloseStep

SpecFormats == InitFormats /\ [][NextFormats]_vars

\* the fmt payload on disk
FmtOnDisk == ext[IndexOfId(ext, "fmt ")].body

\* C11: the fmt chunk a writer emits has formatTag EXTENSIBLE when
\* useExtensible is set or the channel mask is non-zero, and otherwise PCM or
\* IEEE_FLOAT as useFloat says; in the EXTENSIBLE case the subFormat is
\* IEEE_FLOAT exactly when useFloat is set.
C11_FormatTagSelection ==
  LET sample == IF args.useFloat THEN WAVE_FORMAT_IEEE_FLOAT ELSE WAVE_FORMAT_PCM
  IN  IF args.useExtensible \/ args.channelMask # 0
      THEN /\ FmtOnDisk.formatTag = WAVE_FORMAT_EXTENSIBLE
           /\ FmtOnDisk.extraData.present
           /\ FmtOnDisk.extraData.subFormat = sample
      ELSE FmtOnDisk.formatTag = sample

\* a writer constructed with a channel mask and without useExtensible has
\* written a plain fmt chunk and closed the file
C11_Witness ==
  /\ ClosedNormally
  /\ ~args.useExtensible /\ args.channelMask # 0
  /\ FmtOnDisk.formatTag \in {WAVE_FORMAT_PCM, WAVE_FORMAT_IEEE_FLOAT}
  /\ ~FmtOnDisk.extraData.present

\* C12: after any sequence of write and writeRaw calls that wrote F frames in
\* total, framesWritten() is F and the in-memory data chunk size and the
\* header-list entry of the data chunk are both F times the block alignment;
\* after close() a reader of the file reports numberOfFrames() = F.
C12_FrameConservation ==
  LET bytes == BMulSmall(returned, (args.channels * args.bitDepth) \div 8)
      data == chunks_[IndexOfId(chunks_, "data")]
      entry == chunkHeaders_[IndexOfId(chunkHeaders_, "data")]
  IN  /\ framesWritten(S) = returned
      /\ data.size = bytes
      /\ entry.size = bytes
      /\ ClosedNormally =>
            /\ Bw64Reader(File).status = "ok"
            /\ numberOfFrames(Bw64Reader(File)) = returned

\* write and writeRaw calls wrote three frames of two 16-bit channels and
\* the file was closed
C12_Witness ==
  /\ ClosedNormally
  /\ returned = N(3)
  /\ args.channels = 2
  /\ \E i \in 1..Len(ext) : ext[i].id = "data" /\ ext[i].hsize = N(3 * 2 * 2)

-----------------------------------------------------------------------------
(* A reader opened on files of every shape and driven through seek, read,  *)
(* readRaw and getMarkers.                                                 *)

\* public calls made on one reader, the constructor included
MaxReaderCalls == 3

RECURSIVE writeFile(_, _)
\* the stream after the chunks were written one after another, the data chunk
\* followed by as many sample bytes as its header declares
writeFile(s, chunks) ==
  IF chunks = <<>> THEN s
  ELSE LET c == Head(chunks) IN
       CHOOSE r \in {writeFile(IF c.id = "data"
                               THEN StreamWriteBytes(s1, ChunkSize(c)) ELSE s1,
                               Tail(chunks)) : s1 \in {writeChunk(s, c)}} : TRUE

\* a file with the given outer id holding the chunks
FileOf(riffId, chunks) ==
  LET s == writeFile([writeRiffHeader(Fresh) EXCEPT !.riff.id = riffId], chunks)
  IN  [riff |-> s.riff, ext |-> s.ext]

\* files with and without ds64, fmt and data chunks, under both outer ids
StructureFiles ==
  LET fmt == FormatInfoChunk(1, 48000, 16, NoExtraData, WAVE_FORMAT_PCM)
      Ds64(n) == DataSize64Chunk(N(0), N(n), EmptyMap)
      Lists(n) == {<<x, y, z>> \in
                     {<<>>, <<Ds64(n)>>} \X {<<>>, <<fmt>>} \X {<<>>, <<Ds64(n)>>} :
                     x = <<>> \/ z = <<>>}
  IN  {FileOf(id, l[1] \o l[2] \o l[3] \o <<DataChunk(N(4))>>) :
         id \in {"RIFF", "BW64", "RF64"}, l \in Lists(4)}
      \cup {FileOf(id, l[1] \o l[2] \o l[3]) :
               id \in {"RIFF", "BW64"}, l \in Lists(0)}

\* RIFF files with a cue chunk, in or out of position order, and up to two
\* LIST chunks before or after three frames of 16-bit mono samples
MarkerFiles ==
  LET fmt == FormatInfoChunk(1, 48000, 16, NoExtraData, WAVE_FORMAT_PCM)
      cues == {CueChunk(<<MakeCuePoint(1, N(3), <<>>), MakeCuePoint(2, N(5), <<>>)>>),
               CueChunk(<<MakeCuePoint(1, N(5), <<>>), MakeCuePoint(2, N(3), <<>>)>>)}
      lists == {ListChunk("adtl", <<LabelChunk(1, <<65>>)>>),
                ListChunk("adtl", <<LabelChunk(2, <<66, 67>>), LabelChunk(3, <<68>>)>>),
                ListChunk("INFO", <<LabelChunk(1, <<69>>)>>)}
      some == {<<>>} \cup {<<l>> : l \in lists}
  IN  {FileOf("RIFF", <<fmt, c>> \o l1 \o <<DataChunk(N(6))>> \o l2) :
         c \in cues, l1 \in some, l2 \in some}

\* BW64 and RF64 files that open with ds64: the data header holds 0xFFFFFFFF
\* and the ds64 chunk holds the data size
Ds64Files ==
  LET fmt == FormatInfoChunk(1, 48000, 16, NoExtraData, WAVE_FORMAT_PCM)
      Sized(f) == [f EXCEPT !.ext[3].hsize = UINT32_MAX]
  IN  {Sized(FileOf(id, <<DataSize64Chunk(N(0), N(n), EmptyMap), fmt,
                          DataChunk(N(n))>>)) :
         id \in {"BW64", "RF64"}, n \in {2, 6}}

InitReader ==
  \E f \in StructureFiles \cup MarkerFiles \cup Ds64Files :
    /\ isOpen = FALSE
    /\ riff = f.riff
    /\ ext = f.ext
    /\ tellp = N(0)
    /\ chunks_ = <<>>
    /\ chunkHeaders_ = <<>>
    /\ postDataChunks_ = <<>>
    /\ useRf64Id_ = FALSE
    /\ args = <<>>
    /\ pc = "ready"
    /\ alive = FALSE
    /\ lastCall = [op |-> "none", arg |-> <<>>, threw |-> FALSE]
    /\ calls = 0
    /\ added = <<>>
    /\ reader = NoReader
    /\ probe = NoProbe
    /\ returned = N(0)

\* a call on the reader that leaves it as r and returns ret or throws
ReaderCall(op, arg, r, threw, ret) ==
  /\ calls < MaxReaderCalls
  /\ reader' = r
  /\ lastCall' = [op |-> op, arg |-> arg, threw |-> threw, ret |-> ret]
  /\ calls' = calls + 1
  /\ UNCHANGED <<isOpen, riff, ext, tellp, chunks_, chunkHeaders_,
                 postDataChunks_, useRf64Id_, args, pc, alive, added, probe,
                 returned>>

\* Bw64Reader reader(path)
OpenReader ==
  /\ reader = NoReader
  /\ LET Constructed(r) == ReaderCall("Bw64Reader", <<>>, r, r.status # "ok", 0)
     IN  Constructed(Bw64Reader(File))

\* reader.seek(offset, way)
SeekReader ==
  /\ reader.status = "ok"
  /\ \E offset \in {Wide("zero", k) : k \in {-1, 0, 1, 2, 5}}
                      \cup {Wide("max", 0), Wide("min", 0)},
        way \in {"beg", "cur", "end"} :
       \E frame \in seekFrames(reader, offset, way) :
         ReaderCall("seek", <<offset, way>>, seek(reader, frame), FALSE, 0)

ReadCounts == {Wide("zero", k) : k \in {0, 1, 5}} \cup {Wide("top", 1)}

\* reader.read(buffer, frames)
ReadReader ==
  /\ reader.status = "ok"
  /\ \E frames \in ReadCounts :
       LET o == read(reader, frames)
       IN  ReaderCall("read", <<frames>>, o.r, o.threw, o.ret)

\* reader.readRaw(buffer, frames)
ReadRawReader ==
  /\ reader.status = "ok"
  /\ \E frames \in ReadCounts :
       LET o == readRaw(reader, frames)
       IN  ReaderCall("readRaw", <<frames>>, o.r, o.threw, o.ret)

\* reader.getMarkers()
GetMarkersReader ==
  /\ reader.status = "ok"
  /\ ReaderCall("getMarkers", <<>>, reader, FALSE, getMarkers(reader))

NextReader ==
  \/ OpenReader
  \/ SeekReader
  \/ ReadReader
  \/ ReadRawReader
  \/ GetMarkersReader

SpecReader == InitReader /\ [][NextReader]_vars

\* the label texts the file holds for cue point id: the text before the
\* terminating null of every labl sub-chunk of a LIST chunk of type adtl
LabelsOnDisk(id) ==
  {SubSeq(ext[i].body.subs[j].payload.text, 1,
          Len(ext[i].body.subs[j].payload.text) - 1) :
     <<i, j>> \in {<<i, j>> \in (1..Len(ext)) \X (1..2) :
                     /\ ext[i].id = "LIST"
                     /\ ext[i].body.listType = "adtl"
                     /\ j <= Len(ext[i].body.subs)
                     /\ ext[i].body.subs[j].id = "labl"
                     /\ ext[i].body.subs[j].payload.cuePointId = id}}

\* getMarkers() returned one entry per cue point of the file's cue chunk, each
\* with a label the file holds for its id, or no label when it holds none
EntriesAndLabels(m) ==
  LET cue == ext[IndexOfId(ext, "cue ")].body
  IN  /\ Len(m) = cue.numCuePoints
      /\ \A i \in 1..Len(m) :
           /\ \E k \in 1..cue.numCuePoints :
                m[i].id = cue.points[k].id /\ m[i].position = cue.points[k].position
           /\ IF LabelsOnDisk(m[i].id) = {} THEN m[i].label = <<>>
              ELSE m[i].label \in LabelsOnDisk(m[i].id)
      /\ \A k \in 1..cue.numCuePoints : \E i \in 1..Len(m) : m[i].id = cue.points[k].id

\* C13: for every readable file with a cue chunk and any number of LIST
\* chunks, getMarkers() returns one entry per cue point of the cue chunk, each
\* with the label of the matching labl sub-chunk of a LIST chunk of type adtl
\* or with an empty label, in position-sorted order.
C13_MarkersLabelledAndSorted ==
  lastCall.op = "getMarkers" /\ IndexOfId(ext, "cue ") # 0 =>
    /\ EntriesAndLabels(lastCall.ret)
    /\ \A i, j \in 1..Len(lastCall.ret) :
         i < j => BLe(lastCall.ret[i].position, lastCall.ret[j].position)

\* getMarkers() returned the two labelled cue points of a file in file order,
\* the later position first
C13_Witness ==
  /\ lastCall.op = "getMarkers"
  /\ Len(lastCall.ret) = 2
  /\ lastCall.ret[1].position = N(5) /\ lastCall.ret[2].position = N(3)
  /\ lastCall.ret[1].label = <<65>> /\ lastCall.ret[2].label = <<66, 67>>

\* the file holds a chunk with this id
OnDisk(id) == \E i \in 1..Len(ext) : ext[i].id = id

\* C14: a reader opened on a file whose outer id is BW64 or RF64 fails unless
\* the first chunk after the outer header is ds64, and the ds64 chunk is parsed
\* before any other chunk header is interpreted: a file that begins with ds64
\* and holds fmt and data opens, with the data size the ds64 chunk gives.
C14_Ds64First ==
  lastCall.op = "Bw64Reader" /\ riff.id \in {"BW64", "RF64"} =>
    IF ext = <<>> \/ ext[1].id # "ds64"
    THEN reader.status = "throw" /\ lastCall.threw
    ELSE OnDisk("fmt ") /\ OnDisk("data") =>
           /\ reader.status = "ok"
           /\ reader.chunkHeaders_[IndexOfId(reader.chunkHeaders_, "data")].size
                = ext[1].body.dataSize

\* the constructor threw on an RF64 file that begins with fmt and holds ds64
\* after it
C14_Witness ==
  /\ lastCall.op = "Bw64Reader" /\ lastCall.threw
  /\ riff.id = "RF64"
  /\ Len(ext) = 3 /\ ext[1].id = "fmt " /\ ext[2].id = "ds64" /\ ext[3].id = "data"

\* C15: opening a reader fails when the file has no fmt chunk or no data
\* chunk, and a constructed reader always has both.
C15_FormatAndDataRequired ==
  /\ lastCall.op = "Bw64Reader" /\ (~OnDisk("fmt ") \/ ~OnDisk("data")) =>
       reader.status = "throw" /\ lastCall.threw
  /\ reader.status = "ok" =>
       /\ \E i \in 1..Len(reader.chunks_) : reader.chunks_[i].id = "fmt "
       /\ \E i \in 1..Len(reader.chunks_) : reader.chunks_[i].id = "data"

\* the constructor threw on a RIFF file that holds a data chunk and no fmt chunk
C15_Witness ==
  /\ lastCall.op = "Bw64Reader" /\ lastCall.threw
  /\ riff.id = "RIFF"
  /\ OnDisk("data") /\ ~OnDisk("fmt ")

\* origin + offset as a mathematical integer, clamped into 0..n: an offset
\* near INT64_MAX gives n and one near INT64_MIN gives 0, whatever the origin
ClampedSum(origin, offset, n) ==
  CASE offset.base = "max" -> n
    [] offset.base = "min" -> 0
    [] offset.base = "zero" ->
         IF origin + offset.off < 0 THEN 0
         ELSE IF origin + offset.off > n THEN n
         ELSE origin + offset.off

\* C16: for every offset and origin, seek(offset, origin) leaves the cursor
\* at clamp(origin + offset, 0, numberOfFrames()) and the stream at
\* dataStartPos + frame * blockAlignment, and tell() always lies in
\* 0..numberOfFrames().
C16_SeekClamps ==
  [][/\ reader'.status = "ok" =>
          BLe(tell(reader'), numberOfFrames(reader'))
     /\ lastCall'.op = "seek" =>
          LET n == numberOfFrames(reader)[2]
              way == lastCall'.arg[2]
              origin == CASE way = "beg" -> 0
                          [] way = "cur" -> tell(reader)[2]
                          [] way = "end" -> n
              frame == ClampedSum(origin, lastCall'.arg[1], n)
          IN  /\ tell(reader') = N(frame)
              /\ reader'.tellg = BAdd(dataStartPos(reader'),
                                      N(frame * blockAlignment(reader')))]_vars

\* seek(INT64_MAX, std::ios::end) on a file of three frames has left the
\* cursor on frame 0
C16_Witness ==
  /\ lastCall.op = "seek"
  /\ lastCall.arg = <<Wide("max", 0), "end">>
  /\ numberOfFrames(reader) = N(3)
  /\ tell(reader) = N(0)

\* C17: read and readRaw transfer exactly min(frames, numberOfFrames() -
\* tell()) frames for every uint64_t frames, advance the cursor by that
\* amount and return it; at the end of the data they return 0; they never
\* read beyond the data chunk.
C17_ReadClamps ==
  [][lastCall'.op \in {"read", "readRaw"} =>
       LET frames == lastCall'.arg[1]
           left == numberOfFrames(reader)[2] - tell(reader)[2]
           count == IF frames.base = "top" \/ frames.off > left THEN left
                    ELSE frames.off
       IN  /\ ~lastCall'.threw
           /\ lastCall'.ret = count
           /\ tell(reader') = BAdd(tell(reader), N(count))
           /\ BLe(reader'.tellg,
                  BAdd(dataStartPos(reader),
                       reader.chunks_[IndexOfId(reader.chunks_, "data")].size))]_vars

\* read(buffer, 2^64 - 1) with the cursor on frame 1 of 3 has thrown
C17_Witness ==
  /\ lastCall.op = "read" /\ lastCall.threw
  /\ lastCall.arg = <<Wide("top", 1)>>
  /\ numberOfFrames(reader) = N(3)
  /\ tell(reader) = N(1)

-----------------------------------------------------------------------------
(* The chunk parsers and the sample codec applied to inputs of every kind. *)

\* FormatInfoChunk::isFloat: the tag, or for EXTENSIBLE the first field of
\* the subFormat GUID
isFloat(fmt) ==
  \/ fmt.formatTag = WAVE_FORMAT_IEEE_FLOAT
  \/ fmt.formatTag = WAVE_FORMAT_EXTENSIBLE /\
       fmt.extraData.subFormat = WAVE_FORMAT_IEEE_FLOAT

\* a host sample is a number of quarters: k stands for k / 4
Quarter == 4

\* n / d rounded towards zero (static_cast to an integer type)
Trunc(n, d) == IF n >= 0 THEN n \div d ELSE -((-n) \div d)

\* 2^n
RECURSIVE Pow2(_)
Pow2(n) == IF n = 0 THEN 1 ELSE 2 * Pow2(n - 1)

\* utils::encodePcmSamples for one sample: scaled by `scale`, clipped to the
\* integer range of the bit depth, 8-bit codes biased by 128
encodePcmSamples(k, bitsPerSample, scale) ==
  LET Q == Pow2(bitsPerSample - 1)
      v == Trunc(k * scale, Quarter)
      clipped == IF v > Q - 1 THEN Q - 1 ELSE IF v < -Q THEN -Q ELSE v
  IN  IF bitsPerSample = 8 THEN clipped + 128 ELSE clipped

\* utils::decodePcmSamples for one sample: the code as a fraction of scale
decodePcmSamples(code, bitsPerSample, scale) ==
  [num |-> IF bitsPerSample = 8 THEN code - 128 ELSE code, den |-> scale]

\* utils::encodeFloatSamples for one sample: sign, odd mantissa and binary
\* exponent of k / 4
encodeFloatSamples(k) ==
  LET a == IF k < 0 THEN -k ELSE k
      t == CHOOSE i \in 0..4 : a % Pow2(i) = 0 /\ (i = 4 \/ a % Pow2(i + 1) # 0)
  IN  IF k = 0 THEN [sign |-> 0, mant |-> 0, exp |-> 0]
      ELSE [sign |-> IF k < 0 THEN 1 ELSE 0, mant |-> a \div Pow2(t), exp |-> t - 2]

\* utils::decodeFloatSamples for one sample, as a fraction
decodeFloatSamples(bits) ==
  [num |-> (IF bits.sign = 1 THEN -1 ELSE 1) * bits.mant * Pow2(bits.exp + 2),
   den |-> Quarter]

\* write() storing every sample as a float
encodeSample_AlwaysFloat(fmt, k, scale) ==
  [pcm |-> FALSE, code |-> encodeFloatSamples(k)]

\* the codec Bw64Writer::write applies to a sample
encodeSample(fmt, k, scale) ==
  IF isFloat(fmt) THEN [pcm |-> FALSE, code |-> encodeFloatSamples(k)]
  ELSE [pcm |-> TRUE, code |-> encodePcmSamples(k, fmt.bitsPerSample, scale)]

\* the codec Bw64Reader::read applies to a stored sample; bytes of one
\* encoding decoded as the other are not a sample (den 0)
decodeSample(fmt, stored, scale) ==
  IF isFloat(fmt) = stored.pcm THEN [num |-> 0, den |-> 0]
  ELSE IF isFloat(fmt) THEN decodeFloatSamples(stored.code)
  ELSE decodePcmSamples(stored.code, fmt.bitsPerSample, scale)

\* fmt payloads: a consistent payload of each kind with its stored
\* blockAlignment raised by db and its stored bytesPerSecond by dbps
FormatPayloads ==
  {[fn |-> "parseFormatInfoChunk", id |-> "fmt ", size |-> size,
    formatTag |-> tag, channelCount |-> ch, sampleRate |-> sr,
    bitsPerSample |-> bits,
    blockAlignment |-> (blockAlignmentOf(ch, bits) + db) % Base,
    bytesPerSecond |->
      IF blockAlignmentOf(ch, bits) > 8 THEN N(dbps)
      ELSE U32(BAdd(bytesPerSecondOf(ch, sr, bits), N(dbps))),
    cbSize |-> IF size = 40 THEN 22 ELSE 0,
    extraData |-> ExtraData(bits, 0, sub)] :
     size \in {14, 16, 18, 40},
     tag \in {WAVE_FORMAT_PCM, WAVE_FORMAT_IEEE_FLOAT, WAVE_FORMAT_EXTENSIBLE, 2},
     ch \in {0, 1, 2, 65535}, sr \in {0, 48000, 2147483647},
     bits \in {12, 16, 32}, db \in {0, 1}, dbps \in {0, 1},
     sub \in {WAVE_FORMAT_PCM, 2}}

\* cue payloads: a count, the records the payload holds, the size its header
\* declares, and what the stream holds after the payload.  24 * 178956971
\* is 2^32 + 8
CuePayloads ==
  LET point(i) == [id |-> i, position |-> N(i * 10), dataChunkId |-> fourCC("data"),
                   chunkStart |-> N(0), blockStart |-> N(0),
                   sampleOffset |-> N(i * 10)]
  IN  {[fn |-> "parseCueChunk", id |-> "cue ", size |-> N(size),
        numCuePoints |-> count, following |-> after,
        points |-> [i \in 1..((size - 4) \div 24) |-> point(3 - i)]] :
         size \in {4, 12, 28, 52}, after \in {"eof", "bytes"},
         count \in {0, 1, 2, 178956971, 178956972, 2147483647}}
      \cup {[fn |-> "parseCueChunk", id |-> "cue ", size |-> N(2),
             numCuePoints |-> 0, following |-> "eof", points |-> <<>>]}

\* samples of -3.5 to 3.5 for writers of every sample format, with the two
\* scale factors an integer encoder may use
CodecInputs ==
  {[fn |-> "codec", format |-> f, sample |-> k, fullScale |-> full] :
     f \in {g \in [channels : {1}, bitDepth : {8, 16, 24, 32},
                    useExtensible : BOOLEAN, useFloat : BOOLEAN,
                    channelMask : {0}, sampleRate : {48000}] :
              g.useFloat <=> g.bitDepth = 32},
     k \in {-14, -8, -5, -4, -2, 0, 2, 4, 5, 8, 14}, full \in BOOLEAN}

\* the largest size a LIST header declares
MaxListSize == 36

\* the records of a stream after a list type: labl sub-chunks with labels of
\* one and two bytes, a labl sub-chunk too small to hold a label, a sub-chunk
\* of another kind with two and three payload bytes
ListStreams ==
  LET labl(id, label) == [id |-> "labl", size |-> N(4 + Len(label) + 1),
                          payload |-> bytesOf(LabelChunk(id, label)),
                          pad |-> (Len(label) + 1) % 2 = 1]
      note(n) == [id |-> "note", size |-> N(n), payload |-> [id |-> "note"],
                  pad |-> n % 2 = 1]
      small == [id |-> "labl", size |-> N(4),
                payload |-> [id |-> "labl", cuePointId |-> 1, text |-> <<>>],
                pad |-> FALSE]
  IN  {<<>>, <<labl(1, <<65>>)>>, <<labl(1, <<65, 66>>)>>,
       <<labl(1, <<65>>), labl(2, <<66, 67>>)>>,
       <<note(2), labl(1, <<65>>)>>, <<note(3), note(2)>>, <<small>>}

\* LIST payloads whose header declares from 0 to MaxListSize bytes, laid over
\* each stream: the declared size may end inside a record or on its boundary
ListPayloads ==
  {[fn |-> "parseListChunk", id |-> "LIST", listType |-> "adtl",
    size |-> N(size), subs |-> subs] :
     size \in 0..MaxListSize, subs \in ListStreams}

InitParse ==
  /\ isOpen = FALSE
  /\ riff = [id |-> "none", size |-> N(0), form |-> "none"]
  /\ ext = <<>>
  /\ tellp = N(0)
  /\ chunks_ = <<>>
  /\ chunkHeaders_ = <<>>
  /\ postDataChunks_ = <<>>
  /\ useRf64Id_ = FALSE
  /\ args \in FormatPayloads \cup CuePayloads \cup CodecInputs \cup ListPayloads
  /\ pc = "ready"
  /\ alive = FALSE
  /\ lastCall = [op |-> "none", arg |-> <<>>, threw |-> FALSE]
  /\ calls = 0
  /\ added = <<>>
  /\ reader = NoReader
  /\ probe = NoProbe
  /\ returned = N(0)

\* the function applied to the input gave out
Applied(out) ==
  /\ probe = NoProbe
  /\ probe' = [fn |-> args.fn, out |-> out]
  /\ UNCHANGED <<isOpen, riff, ext, tellp, chunks_, chunkHeaders_,
                 postDataChunks_, useRf64Id_, args, pc, alive, lastCall, calls,
                 added, reader, returned>>

\* parseFormatInfoChunk(stream, id, size)
ParseFormat ==
  /\ args.fn = "parseFormatInfoChunk"
  /\ Applied(parseFormatInfoChunk(args, args.size))

\* parseCueChunk(stream, id, size)
ParseCue ==
  /\ args.fn = "parseCueChunk"
  /\ Applied(parseCueChunk(args, args.size))

\* writer.write of one sample, close(), and reader.read of it: the reader
\* parses the fmt chunk the writer's constructor wrote
WriteThenRead ==
  /\ args.fn = "codec"
  /\ LET written == ctorFormatChunk(args.format)
         parsed == parseFormatInfoChunk(bytesOf(written), ToInt(ChunkSize(written)))
         scale == Pow2(args.format.bitDepth - 1) - (IF args.fullScale THEN 0 ELSE 1)
     IN  Applied(decodeSample(parsed.chunk,
                              encodeSample(written, args.sample, scale), scale))

\* parseListChunk(stream, id, size)
ParseList ==
  /\ args.fn = "parseListChunk"
  /\ Applied(parseListChunk(args, args.size))

NextParse ==
  \/ ParseFormat
  \/ ParseCue
  \/ WriteThenRead
  \/ ParseList

SpecParse == InitParse /\ [][NextParse]_vars

\* C18: parseFormatInfoChunk rejects payloads whose stored blockAlignment is
\* not channelCount * bitsPerSample / 8 or whose stored bytesPerSecond is not
\* sampleRate * blockAlignment, and every chunk it returns satisfies both
\* equalities.
C18_DerivedFieldsChecked ==
  probe.fn = "parseFormatInfoChunk" =>
    LET Derived(channels, bits) == (channels * bits) \div 8
        Matches(channels, rate, bits) ==
          /\ args.blockAlignment = Derived(channels, bits)
          /\ args.bytesPerSecond = BMulSmall(N(rate), Derived(channels, bits))
    IN  /\ ~Matches(args.channelCount, args.sampleRate, args.bitsPerSample) =>
             probe.out.threw
        /\ ~probe.out.threw =>
             Matches(probe.out.chunk.channelCount, probe.out.chunk.sampleRate,
                     probe.out.chunk.bitsPerSample)

\* a 16-byte PCM payload of two 16-bit channels at 48 kHz whose stored
\* bytesPerSecond is one too many has been rejected
C18_Witness ==
  /\ probe.fn = "parseFormatInfoChunk" /\ probe.out.threw
  /\ args.size = 16 /\ args.formatTag = WAVE_FORMAT_PCM
  /\ args.channelCount = 2 /\ args.sampleRate = 48000 /\ args.bitsPerSample = 16
  /\ args.blockAlignment = 4
  /\ args.bytesPerSecond = N(192001)

\* C19: parseCueChunk accepts exactly when the declared size is 4 + 24 *
\* count, computed without wrap-around, for every count up to 2^32 - 1, and
\* otherwise fails; on success it returns exactly count cue points in file
\* order.
C19_CueSizeExact ==
  probe.fn = "parseCueChunk" =>
    /\ ~probe.out.threw <=>
         args.size = BAdd(N(4), BMulSmall(N(args.numCuePoints), 24))
    /\ ~probe.out.threw =>
         /\ probe.out.beyond = 0
         /\ Len(probe.out.chunk.cuePoints) = args.numCuePoints
         /\ \A i \in 1..args.numCuePoints :
              /\ probe.out.chunk.cuePoints[i].id = args.points[i].id
              /\ probe.out.chunk.cuePoints[i].position = args.points[i].position

\* a cue payload of declared size 12 with the count 178956971 has been
\* accepted, its cue points taken from the bytes after the payload
C19_Witness ==
  /\ probe.fn = "parseCueChunk" /\ ~probe.out.threw
  /\ args.size = N(12) /\ args.numCuePoints = 178956971
  /\ probe.out.beyond = 178956971

-----------------------------------------------------------------------------
(* Calls made on a writer after close().                                   *)

\* a step that is a call of write, writeRaw, addMarker, setChnaChunk or
\* postDataChunk on a writer whose stream close() has closed
IsCallAfterClose ==
  /\ pc = "ready" /\ pc' = "ready"
  /\ ~isOpen
  /\ calls' = calls + 1
  /\ lastCall'.op \in {"write", "writeRaw", "addMarker", "setChnaChunk",
                       "postDataChunk"}

\* C21: once close() has been called, whether it returned or threw, a later
\* write, writeRaw, addMarker, setChnaChunk or postDataChunk call changes
\* neither the file on disk nor framesWritten().
C21_ClosedIsAbsorbing ==
  [][IsCallAfterClose =>
       /\ riff' = riff /\ ext' = ext
       /\ framesWritten(S)' = framesWritten(S)]_vars

\* write() called after close() returned has raised framesWritten() above
\* the number of frames in the data chunk on disk
C21_Witness ==
  /\ ~isOpen /\ pc = "ready"
  /\ lastCall.op = "write" /\ ~lastCall.threw
  /\ riff.id = "RIFF" /\ riff.size # UINT32_MAX
  /\ BLt(ext[DataExtent].valid, ChunkSize(dataChunk(S)))

-----------------------------------------------------------------------------
(* The cue chunk objects of a writer and of the reader of its file.        *)

\* the cue point ids of the list are pairwise distinct
DistinctIds(cuePoints) ==
  \A i, j \in 1..Len(cuePoints) : i # j => cuePoints[i].id # cuePoints[j].id

\* the cue points of the cue chunk a constructed reader holds
readerCuePoints(r) ==
  IF r.status # "ok" \/ IndexOfId(r.chunks_, "cue ") = 0 THEN <<>>
  ELSE r.chunks_[IndexOfId(r.chunks_, "cue ")].cuePoints

\* C22: every CueChunk held in memory, by a writer (given to the constructor
\* or filled through addCuePoint) or by a reader (produced by parseCueChunk),
\* has pairwise distinct cue point ids and is sorted by position.
C22_CueChunkInvariant ==
  LET Kept(cuePoints) == DistinctIds(cuePoints) /\ SortedByPosition(cuePoints)
  IN  /\ Kept(cuePointsOf(S))
      /\ ClosedNormally => Kept(readerCuePoints(Bw64Reader(File)))

\* a writer given a cue chunk whose cue points are out of position order has
\* written it, and the reader of the closed file holds them in that order
C22_Witness ==
  LET Unsorted(cuePoints) ==
        Len(cuePoints) = 2 /\ BLt(cuePoints[2].position, cuePoints[1].position)
  IN  /\ ClosedNormally /\ CallerGaveCueChunk /\ added = <<>>
      /\ Unsorted(cuePointsOf(S))
      /\ Unsorted(readerCuePoints(Bw64Reader(File)))

-----------------------------------------------------------------------------
(* The layout of a closed file.                                            *)

\* the ids of a list of chunks, headers or extents
IdsOf(seq) == [i \in 1..Len(seq) |-> seq[i].id]

\* from offset 12 on, every chunk header on disk is followed, after its
\* stored size rounded up to even, by the next chunk header or the end of
\* the file
Tiled ==
  /\ ext[1].pos = N(12)
  /\ \A i \in 1..Len(ext) :
       BAdd(BAdd(ext[i].pos, N(8)), Pad(ext[i].hsize))
         = IF i < Len(ext) THEN ext[i + 1].pos ELSE FileEnd(File)

\* C23: after a successful close() the chunks tile the file from offset 12 to
\* its end, and the reader's directory walk yields exactly the writer's
\* sequence of chunk ids, also when a patched chunk is smaller than the
\* placeholder reserved for it.
C23_ChunksTile ==
  LET Same(walk) == walk.status = "ok" /\ IdsOf(walk.headers) = IdsOf(chunkHeaders_)
  IN  (ClosedNormally /\ riff.id = "RIFF") =>
        /\ Tiled
        /\ Same(parseChunkHeaders(File, N(12), [present |-> FALSE], <<>>))

\* a file closed with one marker in a cue placeholder reserved for two: the
\* directory walk records more headers than the writer wrote chunks
C23_Witness ==
  LET More(walk) == walk.status = "ok" /\ Len(walk.headers) > Len(chunkHeaders_)
  IN  /\ ClosedNormally /\ riff.id = "RIFF"
      /\ args.maxMarkers = 2 /\ Len(added) = 1
      /\ ext[CueExtent].hsize = N(28) /\ ext[CueExtent].cap = N(52)
      /\ More(parseChunkHeaders(File, N(12), [present |-> FALSE], <<>>))

-----------------------------------------------------------------------------
(* close() failing on an over-full placeholder: a writer with room for one *)
(* marker, given markers and post-data chunks of any size.                 *)

InitClose == \E a \in CtorArgs({Pcm8Mono}, {<<>>}, {0, 1}) : InitWith(a)

NextClose ==
  \/ DoAddMarker
  \/ DoPostBigChunk
  \/ DoCloseSized
  \/ DoDestructor
  \/ CloseStep
  \/ CloseCatch

SpecClose == InitClose /\ [][NextClose]_vars

\* close() has thrown: the handler is about to run, or has run
CloseThrew ==
  pc = "catch" \/ (pc = "ready" /\ lastCall.op = "close" /\ lastCall.threw)

\* the writer's cue chunk is larger than the cue chunk reserved on disk
CueOverfull ==
  /\ cueChunkIndex(S) # 0
  /\ BLt(chunkHeaders_[IndexOfId(chunkHeaders_, "cue ")].size,
         ChunkSize(chunks_[cueChunkIndex(S)]))

\* C24: when close() fails because a patched chunk exceeds its placeholder,
\* the outer header on disk still carries the group size 0xFFFFFFFF, and when
\* the failing patch is the cue chunk no post-data chunk, the synthesized
\* LIST chunk included, is on disk; the closed file is not written again.
C24_FailedCloseUnfinalized ==
  /\ [](CloseThrew =>
          /\ riff.size = UINT32_MAX
          /\ CueOverfull => Len(ext) = DataExtent)
  /\ [][~isOpen => riff' = riff /\ ext' = ext]_vars

\* close() has thrown on a writer holding two markers, one labelled, in a cue
\* chunk reserved for one; the LIST chunk is queued and not on disk
C24_Witness ==
  /\ pc = "ready" /\ lastCall.op = "close" /\ lastCall.threw
  /\ CueOverfull /\ HasLabels
  /\ \E i \in 1..Len(postDataChunks_) : postDataChunks_[i].id = "LIST"
  /\ ext[Len(ext)].id = "data"

-----------------------------------------------------------------------------
(* Labels at close: writers given a cue chunk by the caller, with distinct *)
(* or with repeated ids, or filling their own through addMarker.           *)

\* a cue chunk built by the caller from two labelled cue points with the
\* same id
RepeatedIdCueChunk ==
  CueChunk(<<MakeCuePoint(1, N(3), <<65>>), MakeCuePoint(1, N(5), <<66>>)>>)

InitLabels ==
  \E a \in CtorArgs({Pcm8Mono},
                    {<<>>, <<CallerCueChunk>>, <<RepeatedIdCueChunk>>},
                    0..MaxMarkers) :
     InitWith(a)

NextLabels ==
  \/ DoAddMarker
  \/ DoPostDataChunk
  \/ DoClose
  \/ DoDestructor
  \/ CloseStep
  \/ CloseCatch

SpecLabels == InitLabels /\ [][NextLabels]_vars

\* the positions in the post-data queue of the LIST chunks of type adtl
AdtlQueued ==
  {i \in 1..Len(postDataChunks_) :
     postDataChunks_[i].id = "LIST" /\ postDataChunks_[i].listType = "adtl"}

\* the labelled cue points of the writer's cue chunk
Labelled ==
  {i \in 1..Len(cuePointsOf(S)) : cuePointsOf(S)[i].label # <<>>}

\* the sub-chunks are labl chunks, one per labelled cue point, each with the
\* id and the label of its cue point
OneLabelEach(subs) ==
  /\ Len(subs) = Cardinality(Labelled)
  /\ \A k \in 1..Len(subs) : subs[k].id = "labl"
  /\ \A i \in Labelled :
       \E k \in 1..Len(subs) :
         /\ subs[k].cuePointId = cuePointsOf(S)[i].id
         /\ subs[k].label = cuePointsOf(S)[i].label

\* C25: at close a LIST chunk of type adtl is queued iff some cue point of
\* the writer's cue chunk has a non-empty label; it holds exactly one labl
\* sub-chunk per labelled cue point, with that cue point's id and label, and
\* it is written after every post-data chunk the caller queued.
C25_LabelsAtClose ==
  /\ pc \in {"writePostDataChunks", "finalizeRiffChunk", "closeStream"} =>
       /\ AdtlQueued # {} <=> Labelled # {}
       /\ Labelled # {} =>
            /\ AdtlQueued = {Len(postDataChunks_)}
            /\ OneLabelEach(postDataChunks_[Len(postDataChunks_)].subChunks)
  /\ (ClosedNormally /\ Labelled # {}) =>
       /\ ext[Len(ext)].id = "LIST"
       /\ ext[Len(ext)].body = bytesOf(postDataChunks_[Len(postDataChunks_)])
       /\ \A i \in 1..Len(ext) : ext[i].id = "LIST" => i = Len(ext)

\* a writer given two labelled cue points with the same id has closed the
\* file with a LIST chunk of one labl sub-chunk
C25_Witness ==
  /\ ClosedNormally
  /\ Cardinality(Labelled) = 2
  /\ ext[Len(ext)].id = "LIST"
  /\ Len(ext[Len(ext)].body.subs) = 1
  /\ ext[Len(ext)].body.subs[1].payload.text = <<66, 0>>

-----------------------------------------------------------------------------
(* setChnaChunk between writes.                                            *)

\* a step that is a setChnaChunk call
IsSetChnaCall ==
  /\ pc = "ready" /\ pc' = "ready"
  /\ calls' = calls + 1
  /\ lastCall'.op = "setChnaChunk"

\* the chna header the writer keeps: position and size of the region
\* reserved when the file was opened
ChnaHeader == chunkHeaders_[IndexOfId(chunkHeaders_, "chna")]

C26_Step ==
  IsSetChnaCall =>
    LET numUids == lastCall'.arg[1]
        k == ExtentAt(S, ChnaHeader.position)
    IN  /\ (numUids > 1024 \/ BLt(ChnaHeader.size, N(4 + 40 * numUids))) =>
             lastCall'.threw /\ ext' = ext
        /\ ~lastCall'.threw =>
             /\ Len(ext') = Len(ext)
             /\ \A i \in 1..Len(ext) : i # k => ext'[i] = ext[i]
             /\ ext'[k].pos = ext[k].pos /\ ext'[k].cap = ext[k].cap
             /\ BLe(ext'[k].valid, ext[k].cap)
             /\ isOpen => ext'[k].body.numUids = numUids
        /\ riff' = riff
        /\ tellp' = tellp
        /\ ChunkSize(dataChunk(S))' = ChunkSize(dataChunk(S))

\* C26: setChnaChunk fails when the chunk has more than 1024 UIDs or is
\* larger than the chna region reserved at open; when it succeeds it rewrites
\* only bytes inside that region and leaves the write position and the data
\* size unchanged, the write position of an open writer being the end of the
\* data written so far.
C26_ChnaPatchedInPlace ==
  /\ [][C26_Step]_vars
  /\ []((isOpen /\ pc = "ready") =>
          /\ tellp = EndPos(S)
          /\ ext[Len(ext)].id = "data"
          /\ ext[Len(ext)].valid = ChunkSize(dataChunk(S)))

\* setChnaChunk has put two UIDs into the reserved region of a writer that
\* had written frames, and the write position is still the end of the data
C26_Witness ==
  /\ isOpen /\ lastCall.op = "setChnaChunk" /\ ~lastCall.threw
  /\ returned # N(0)
  /\ ext[ExtentAt(S, ChnaHeader.position)].body = ChnaChunk(2)
  /\ ext[ExtentAt(S, ChnaHeader.position)].cap = N(MAX_NUMBER_OF_UIDS * 40 + 4)
  /\ tellp = EndPos(S)

-----------------------------------------------------------------------------
(* The directory walk on files of every shape: sizes resolved through the  *)
(* ds64 chunk, odd-sized chunks with and without pad byte, chunks cut off  *)
(* by the end of the file.                                                 *)

\* one chunk of a file: the chunk, the size its header stores and the bytes
\* present after the header
Item(chunk, stored, cap) == [chunk |-> chunk, stored |-> stored, cap |-> cap]

\* a chunk as a writer lays it out, with its pad byte
Whole(chunk) == Item(chunk, U32(ChunkSize(chunk)), Pad(ChunkSize(chunk)))

RECURSIVE layOut(_, _)
\* the chunks one after another from offset pos on
layOut(pos, items) ==
  IF items = <<>> THEN <<>>
  ELSE LET it == Head(items) IN
       <<[pos |-> pos, id |-> it.chunk.id, hsize |-> it.stored,
          body |-> bytesOf(it.chunk), valid |-> it.cap, cap |-> it.cap,
          tailZero |-> FALSE]>>
       \o layOut(BAdd(BAdd(pos, N(8)), it.cap), Tail(items))

FileWith(riffId, items) ==
  [riff |-> [id |-> riffId, size |-> UINT32_MAX, form |-> "WAVE"],
   ext |-> layOut(N(12), items)]

\* files that begin with a ds64 chunk, with and without a table entry for
\* axml, holding a six-byte chunk called axml, bext or BW64 or none, and six
\* data bytes; the headers of these chunks store the chunk's own size, 2 or
\* 0xFFFFFFFF
SizeFiles ==
  LET fmt == FormatInfoChunk(1, 48000, 16, NoExtraData, WAVE_FORMAT_PCM)
      Stored(chunk, v) ==
        Item(chunk,
             CASE v = "own" -> ChunkSize(chunk)
               [] v = "small" -> N(2)
               [] v = "max" -> UINT32_MAX,
             ChunkSize(chunk))
  IN  {FileWith(id, <<Whole(DataSize64Chunk(N(0), N(6), t)), Whole(fmt)>>
                    \o x \o <<Stored(DataChunk(N(6)), v)>>) :
         id \in {"RIFF", "BW64", "RF64"},
         t \in {EmptyMap, [c \in {"axml"} |-> N(6)]},
         x \in {<<>>} \cup {<<Stored(OpaqueChunk(c, N(6)), w)>> :
                              c \in {"axml", "bext", "BW64"},
                              w \in {"own", "small", "max"}},
         v \in {"own", "small", "max"}}

\* RIFF files whose last chunk is odd or even sized and is followed by its
\* pad byte ("padded"), by nothing ("exact") or by four more bytes
\* ("stray"), or declares two bytes more than the file holds ("short")
EndFiles ==
  LET fmt == FormatInfoChunk(1, 48000, 16, NoExtraData, WAVE_FORMAT_PCM)
      Last(chunk, tail) ==
        Item(chunk,
             IF tail = "short" THEN BAdd(ChunkSize(chunk), N(2))
             ELSE ChunkSize(chunk),
             CASE tail = "padded" -> Pad(ChunkSize(chunk))
               [] tail = "stray" -> BAdd(Pad(ChunkSize(chunk)), N(4))
               [] OTHER -> ChunkSize(chunk))
  IN  {FileWith("RIFF", <<Whole(fmt)>> \o x \o y[1] \o <<Last(y[2], tail)>>) :
         x \in {<<>>, <<Whole(OpaqueChunk("axml", N(7)))>>,
                <<Whole(OpaqueChunk("axml", N(6)))>>,
                <<Whole(OpaqueChunk("axml", N(0)))>>},
         y \in {<<<<>>, DataChunk(N(5))>>, <<<<>>, DataChunk(N(6))>>,
                <<<<Whole(DataChunk(N(4)))>>, OpaqueChunk("bext", N(3))>>},
         tail \in {"padded", "exact", "stray", "short"}}

\* the constructor up to the end of parseChunkHeaders(): the outer header,
\* for a BW64 or RF64 file the ds64 chunk, whose header is the first one
\* recorded, and the walk from the byte after it
walkOf(f) ==
  LET isBw64 == f.riff.id = "BW64" \/ f.riff.id = "RF64"
      first == f.ext[1]
      Walk(ds64, start, acc) == parseChunkHeaders(f, start, ds64, acc)
  IN  IF f.riff.id \notin {"RIFF", "BW64", "RF64"} \/ f.riff.form # "WAVE"
      THEN [status |-> "throw", headers |-> <<>>]
      ELSE IF ~isBw64 THEN Walk([present |-> FALSE], N(12), <<>>)
      ELSE IF f.ext = <<>> \/ first.id # "ds64" \/ BLt(first.hsize, ChunkSize(first.body))
      THEN [status |-> "throw", headers |-> <<>>]
      ELSE Walk([present |-> TRUE, bw64Size |-> first.body.bw64Size,
                 dataSize |-> first.body.dataSize, table |-> first.body.table],
                BAdd(N(20), first.hsize),
                <<[id |-> "ds64", size |-> first.hsize, position |-> N(12),
                   ext |-> 1, count |-> N(1)]>>)

InitWalk ==
  \E f \in SizeFiles \cup EndFiles :
    /\ isOpen = FALSE
    /\ riff = f.riff
    /\ ext = f.ext
    /\ tellp = N(0)
    /\ chunks_ = <<>>
    /\ chunkHeaders_ = <<>>
    /\ postDataChunks_ = <<>>
    /\ useRf64Id_ = FALSE
    /\ args = <<>>
    /\ pc = "ready"
    /\ alive = FALSE
    /\ lastCall = [op |-> "none", arg |-> <<>>, threw |-> FALSE]
    /\ calls = 0
    /\ added = <<>>
    /\ reader = NoReader
    /\ probe = NoProbe
    /\ returned = N(0)

\* the directory walk of a reader opened on the file
WalkHeaders ==
  /\ probe = NoProbe
  /\ probe' = [fn |-> "parseChunkHeaders", out |-> walkOf(File)]
  /\ UNCHANGED <<isOpen, riff, ext, tellp, chunks_, chunkHeaders_,
                 postDataChunks_, useRf64Id_, args, pc, alive, lastCall, calls,
                 added, reader, returned>>

NextWalk == WalkHeaders

SpecWalk == InitWalk /\ [][NextWalk]_vars

\* the recorded headers of chunks found after a ds64 chunk was parsed
AfterDs64 ==
  {k \in 1..Len(probe.out.headers) :
     riff.id \in {"BW64", "RF64"} /\ probe.out.headers[k].position # N(12)}

\* every recorded header carries the size the rule gives: bw64Ids are the
\* ids resolved to ds64.bw64Size
SizesResolved(bw64Ids) ==
  \A k \in 1..Len(probe.out.headers) :
    LET e == probe.out.headers[k]
        stored == ext[e.ext].hsize
        ds64 == ext[1].body
    IN  e.size = IF k \notin AfterDs64 THEN stored
                 ELSE IF e.id \in bw64Ids THEN ds64.bw64Size
                 ELSE IF e.id = "data" THEN ds64.dataSize
                 ELSE IF e.id \in DOMAIN ds64.table THEN ds64.table[e.id]
                 ELSE stored

\* C27 as stated: during the directory walk a chunk's 64-bit size is
\* ds64.dataSize when its id is data, the ds64 table entry when its id is in
\* the table, and the stored 32-bit size otherwise; when no ds64 chunk has
\* been parsed the stored size is always used.
C27_SizeFromDs64 ==
  probe.fn = "parseChunkHeaders" => SizesResolved({})

\* C27: during the directory walk a chunk's 64-bit size is ds64.bw64Size when
\* its id is BW64 or RF64, ds64.dataSize when its id is data, the ds64 table
\* entry when its id is in the table, and the stored 32-bit size otherwise;
\* when no ds64 chunk has been parsed the stored size is always used.
C27_SizeFromDs64OrOuterId ==
  probe.fn = "parseChunkHeaders" => SizesResolved({"BW64", "RF64"})

\* the walk of an RF64 file has recorded an axml chunk with the size of the
\* ds64 table and a data chunk with ds64.dataSize, both headers storing 2
C27_Witness ==
  /\ probe.fn = "parseChunkHeaders" /\ probe.out.status = "ok"
  /\ riff.id = "RF64"
  /\ Len(probe.out.headers) = 4
  /\ probe.out.headers[3].id = "axml" /\ ext[3].hsize = N(2)
  /\ probe.out.headers[3].size = N(6)
  /\ probe.out.headers[4].id = "data" /\ ext[4].hsize = N(2)
  /\ probe.out.headers[4].size = N(6)

\* the walk of a BW64 file has recorded a chunk whose id is BW64 with the
\* size ds64.bw64Size, not the 6 its header stores
C27_InnerOuterId ==
  /\ probe.fn = "parseChunkHeaders"
  /\ riff.id = "BW64"
  /\ Len(probe.out.headers) >= 3
  /\ probe.out.headers[3].id = "BW64" /\ ext[3].hsize = N(6)
  /\ probe.out.headers[3].size = N(0)


\* the offset at which the walk looks for the next header after it has
\* recorded e: past the payload, and past a pad byte when the payload is odd
\* and does not end at the end of the file
NextHeaderAfter(e) ==
  LET chunk_end == BAdd(BAdd(e.position, N(8)), e.size)
  IN  IF BLt(chunk_end, FileEnd(File)) THEN BAdd(BAdd(e.position, N(8)), Pad(e.size))
      ELSE chunk_end

\* C28: the directory walk ends on every file; the headers it records are
\* chunk headers of the file, in file order with strictly increasing
\* positions; it records no chunk whose payload would end beyond the end of
\* the file; and after every recorded chunk it continues behind the payload,
\* skipping a pad byte after an odd-sized payload unless the payload ends
\* exactly at the end of the file.
C28_WalkStaysInFile ==
  probe.fn = "parseChunkHeaders" =>
    LET hs == probe.out.headers
        last == hs[Len(hs)]
    IN  /\ probe.out.status \in {"ok", "throw", "garbage"}
        /\ \A k \in 1..Len(hs) :
             /\ hs[k].ext \in 1..Len(ext)
             /\ hs[k].position = ext[hs[k].ext].pos /\ hs[k].id = ext[hs[k].ext].id
             /\ BLe(BAdd(BAdd(hs[k].position, N(8)), hs[k].size), FileEnd(File))
        /\ \A k \in 1..(Len(hs) - 1) :
             /\ BLt(hs[k].position, hs[k + 1].position)
             /\ hs[k + 1].position = NextHeaderAfter(hs[k])
        /\ (probe.out.status = "ok" /\ hs # <<>>) =>
             BLt(FileEnd(File), BAdd(NextHeaderAfter(last), N(8)))
        /\ (probe.out.status = "throw" /\ hs # <<>>) =>
             LET k == ExtentAt(File, NextHeaderAfter(last))
             IN  k # 0 /\ BLt(ext[k].cap, ext[k].hsize)

\* the walk has skipped the pad byte after a seven-byte axml chunk and has
\* ended at a five-byte data chunk that ends the file without a pad byte
C28_Witness ==
  /\ probe.fn = "parseChunkHeaders" /\ probe.out.status = "ok"
  /\ Len(probe.out.headers) = 3 /\ Len(ext) = 3
  /\ probe.out.headers[2].id = "axml" /\ probe.out.headers[2].size = N(7)
  /\ probe.out.headers[3].id = "data" /\ probe.out.headers[3].size = N(5)
  /\ probe.out.headers[3].position = BAdd(probe.out.headers[2].position, N(16))
  /\ FileEnd(File) = BAdd(probe.out.headers[3].position, N(13))

\* ---------------------------------------------------------------------------
\* parseListChunk and the declared size of the LIST chunk

\* C29: whenever parseListChunk returns a ListChunk it has read exactly the
\* declared size of payload bytes; a sub-chunk whose header, payload or pad
\* byte extends past the end of the LIST chunk makes it throw
C29_ListParseStaysInChunk ==
  (probe # NoProbe /\ probe.fn = "parseListChunk" /\ ~probe.out.threw)
    => probe.out.bytesRead = args.size

\* a LIST chunk declaring 12 bytes, the list type and a sub-chunk header, over
\* a labl sub-chunk of 6 bytes: parseListChunk returned the label, having read
\* 18 bytes
C29_Witness ==
  /\ probe # NoProbe
  /\ probe.fn = "parseListChunk"
  /\ args.size = N(12)
  /\ ~probe.out.threw
  /\ probe.out.bytesRead = N(18)
  /\ probe.out.chunk = ListChunk("adtl", <<LabelChunk(1, <<65>>)>>)

\* ---------------------------------------------------------------------------
(* addMarker over the range of uint64 positions: a writer with room for one *)
(* or two markers, given positions below, at and above 2^32.                *)

WidePositions == {N(3), UINT32_MAX, TwoTo32, BAdd(TwoTo32, N(3))}

DoAddMarkerAt ==
  /\ calls < MaxCalls
  /\ \E id \in 1..2, p \in WidePositions, l \in {<<>>, <<65>>} : AddMarker(id, p, l)

InitPositions == \E a \in CtorArgs({Pcm8Mono}, {<<>>}, {1, 2}) : InitWith(a)

NextPositions ==
  \/ DoAddMarkerAt
  \/ DoClose
  \/ DoDestructor
  \/ CloseStep
  \/ CloseCatch

SpecPositions == InitPositions /\ [][NextPositions]_vars

\* the cue points of the writer's cue chunk
writerCuePoints ==
  IF cueChunkIndex(S) = 0 THEN <<>> ELSE chunks_[cueChunkIndex(S)].cuePoints

=============================================================================
